---- MODULE Spec2Model ----
(***************************************************************************)
(* aiida-aenet: the text files the generate, train and predict             *)
(* calculations write (structure files, setup files, generate.in,          *)
(* train.in, predict.in), the parser of predict.out and the parser of      *)
(* train.out, the constructor of AenetAlgorithm, the AenetPotential node,  *)
(* the files and retrieve lists along the generate, train, predict         *)
(* pipeline, the simulation calculation and the outlines of                *)
(* MakePotentialWorkChain and CompareSimulationsWorkChain, as state        *)
(* machines over the sandbox folders, the retrieved output, the potential  *)
(* node and the submitted processes.                                       *)
(*                                                                         *)
(* A text is a sequence of lines and a line is the sequence of its         *)
(* whitespace-separated fields, each field a string.                       *)
(***************************************************************************)
EXTENDS Integers, Sequences, FiniteSets, TLC

VARIABLES
    algorithm,      \* inputs.algorithm : the AenetAlgorithm attributes
    reference,      \* inputs.reference.get_list() : the list of PKs
    pc,             \* the step the pipeline is about to run
    err,            \* the exception that ended the run, "none" otherwise
    generate_calc,  \* AenetGenerateCalculation: sandbox folder, xsf_file_list
    predict_calc,   \* AenetPredictCalculation: sandbox folder, xsf_file_list
    retrieved,      \* the retrieved output: the lines of the file being parsed,
                    \* or the retrieved folder (file name -> content)
    results,        \* what the parser's parse_output returned
    args,           \* the arguments of AenetAlgorithm(...) being constructed
    train_calc,     \* AenetTrainCalculation: sandbox folder
    workchain,      \* MakePotentialWorkChain: ctx, awaitables, outputs
    processes,      \* the calculations the work chain submitted
    potential,      \* an AenetPotential node: attributes and stored objects
    calcinfo,       \* the CalcInfo prepare_for_submission returned, per step
    structure,      \* inputs.structure : the kinds of a StructureData
    simulate_calc   \* AenetLammpsMdCalculation: sandbox folder

vars == <<algorithm, reference, pc, err, generate_calc, predict_calc,
          retrieved, results, args, train_calc, workchain, processes,
          potential, calcinfo, structure, simulate_calc>>

(***************************************************************************)
(* Bounds of the model.                                                    *)
(***************************************************************************)
MaxRef == 2      \* reference lists of arbitrary PKs have at most this length
MaxBatch == 12   \* reference lists repeating one PK have at most this length
MaxTrainLines == 5   \* a train.out has at most this many lines
MaxEpochs == 2   \* the epochs parameter of a parsed training run is at most this
MaxBuilds == 3   \* a calculation prepares its folder at most this many times
MaxOutLines == 6   \* a free-form predict.out has at most this many lines

(***************************************************************************)
(* Python built-ins used by the code.                                      *)
(***************************************************************************)
Digit(d) ==
    CASE d = 0 -> "0" [] d = 1 -> "1" [] d = 2 -> "2" [] d = 3 -> "3"
      [] d = 4 -> "4" [] d = 5 -> "5" [] d = 6 -> "6" [] d = 7 -> "7"
      [] d = 8 -> "8" [] d = 9 -> "9"

RECURSIVE str(_)
\* str(n) of an int: the decimal digits, "-" first when negative
str(n) ==
    IF n < 0 THEN "-" \o str(0 - n)
    ELSE IF n < 10 THEN Digit(n)
    ELSE str(n \div 10) \o Digit(n % 10)

RECURSIVE zfill(_, _)
\* s.zfill(width) of a string of digits: zeros on the left up to width
zfill(s, width) == IF Len(s) >= width THEN s ELSE zfill("0" \o s, width)

\* format(x, " 18.12f") of a whole number, as a field: the sign (a space for
\* a positive number separates the field and is dropped), the integer digits,
\* the point and twelve decimals
fixed12(x) ==
    (IF x < 0 THEN "-" ELSE "") \o str(IF x < 0 THEN 0 - x ELSE x)
        \o "." \o "000000000000"

\* str(x) of a whole float
float_str(x) == str(x) \o ".0"

Range(s) == {s[i] : i \in DOMAIN s}

Abs(x) == IF x < 0 THEN 0 - x ELSE x

Min(a, b) == IF a < b THEN a ELSE b

(***************************************************************************)
(* The database: load_node(pk) of the calculations a reference list names. *)
(* Node 4 has a force array shorter than its site list; node 3 holds a Cu  *)
(* atom, which only the three-element algorithm knows.                     *)
(***************************************************************************)
PKs == 1 .. 4

Site(kind, x, y, z) == [kind_name |-> kind, position |-> <<x, y, z>>]

load_node(pk) ==
    CASE pk = 1 -> [label |-> "s1", energy |-> "-10.5",
                    cell |-> <<<<5, 0, 0>>, <<0, 5, 0>>, <<0, 0, 5>>>>,
                    sites |-> <<Site("Ni", 0, 0, 0), Site("P", 1, 2, 3)>>,
                    forces |-> <<<<11, -12, 13>>, <<-14, 15, 16>>>>]
      [] pk = 2 -> [label |-> "s2", energy |-> "-20.5",
                    cell |-> <<<<4, 0, 0>>, <<0, 4, 0>>, <<0, 0, 4>>>>,
                    sites |-> <<Site("Ni", 2, 2, 2)>>,
                    forces |-> <<<<21, 22, -23>>>>]
      [] pk = 3 -> [label |-> "s3", energy |-> "-30.5",
                    cell |-> <<<<6, 0, 0>>, <<0, 6, 0>>, <<0, 0, 6>>>>,
                    sites |-> <<Site("Cu", 3, 0, 0), Site("Ni", 0, 3, 0),
                                Site("P", 0, 0, 3)>>,
                    forces |-> <<<<31, 32, 33>>, <<-34, -35, -36>>,
                                 <<37, 38, 39>>>>]
      [] pk = 4 -> [label |-> "s4", energy |-> "-40.5",
                    cell |-> <<<<7, 0, 0>>, <<0, 7, 0>>, <<0, 0, 7>>>>,
                    sites |-> <<Site("Ni", 4, 0, 0), Site("P", 0, 4, 0)>>,
                    forces |-> <<<<41, 42, 43>>>>]

(***************************************************************************)
(* The algorithm node: AenetAlgorithm attributes as the calculations read  *)
(* them.  elements is the ordered dictionary symbol -> traits, kept as the *)
(* sequence of its items.                                                  *)
(***************************************************************************)
\* traits["network"]: the hidden layers of the documented example
Network ==
    << [nodes |-> 2, activation |-> "tanh"],
       [nodes |-> 2, activation |-> "tanh"] >>

Element(symbol, energy) ==
    [key |-> symbol, energy |-> energy, network |-> Network]

Ni == Element("Ni", "-4676.39")
P == Element("P", "-194.14")
Cu == Element("Cu", "-1640.25")

ElementDicts == {<<Ni>>, <<Ni, P>>, <<Cu, Ni, P>>}

\* dict.keys() in insertion order
keys(elements) == [i \in DOMAIN elements |-> elements[i].key]

EmptyDict == [k \in {} |-> ""]

\* descriptor["parameters"] of a Chebyshev descriptor: no parameter set, the
\* keys chebyshev() reads, and the keys of the AenetAlgorithm docstring
ChebyshevParameters ==
    { EmptyDict,
      [k \in {"radial cutoff", "radial n", "angular cutoff", "angular n"} |->
          CASE k = "radial cutoff" -> "5.0" [] k = "radial n" -> "8"
            [] k = "angular cutoff" -> "3.0" [] k = "angular n" -> "4"],
      [k \in {"radial_rc", "radial_n", "angular_rc", "angular_n"} |->
          CASE k = "radial_rc" -> "5.0" [] k = "radial_n" -> "8"
            [] k = "angular_rc" -> "3.0" [] k = "angular_n" -> "4"] }

BehlerParameters ==
    { [cutoff |-> "6.5", G2 |-> [etas |-> <<"0.1", "0.2">>],
       G4 |-> [etas |-> <<"0.01">>, lambdas |-> <<"-1.0", "1.0">>,
               zetas |-> <<"1.0">>]],
      [cutoff |-> "6.5", G2 |-> [etas |-> <<"0.1">>],
       G4 |-> [etas |-> <<"0.01", "0.02">>, lambdas |-> <<"1.0">>,
               zetas |-> <<"1.0", "2.0">>]] }

Descriptors ==
    [type : {"chebyshev"}, parameters : ChebyshevParameters]
        \cup [type : {"behler"}, parameters : BehlerParameters]

\* every combination of timing, predict_forces and predict_relax; debug is
\* set so that it meets timing in all four ways (the defaults, debug and
\* timing set and the predict flags unset, are one of the combinations)
Algorithms ==
    {[elements |-> e, descriptor |-> d,
      debug |-> (t # pf), timing |-> t,
      predict_forces |-> pf, predict_relax |-> pr,
      r_min |-> "0.75", epochs |-> 10] :
        e \in ElementDicts, d \in Descriptors,
        t \in BOOLEAN, pf \in BOOLEAN, pr \in BOOLEAN}

\* the reference lists of the model: every list of at most MaxRef PKs, and
\* four long batches that repeat node 1, of 9 to 12 structures for MaxBatch
\* = 12 (the number of digits of the batch size changes among them)
References ==
    UNION {[1 .. n -> PKs] : n \in 0 .. MaxRef}
        \cup {[i \in 1 .. n |-> 1] : n \in (MaxBatch - 3) .. MaxBatch}

(***************************************************************************)
(* The sandbox folder: a function from file name to text.                  *)
(***************************************************************************)
EmptyFolder == [f \in {} |-> <<>>]

NewCalc == [folder |-> EmptyFolder, xsf_file_list |-> <<>>]

\* no AenetAlgorithm is being constructed, no work chain is running
NoArgs == <<>>

NoWorkChain == <<>>

NoNode == <<>>
\* no CalcInfo has been returned yet; no structure is given
NoCalcInfo == <<>>
NoStructure == <<>>

\* the folder after texts[1], texts[2], ... were written under names[1],
\* names[2], ... in that order (a later write replaces an earlier one)
write_all(folder, names, texts) ==
    LET written == Range(names)
        last(f) == CHOOSE i \in DOMAIN names :
                       /\ names[i] = f
                       /\ \A j \in DOMAIN names : names[j] = f => j <= i
    IN  [f \in DOMAIN folder \cup written |->
            IF f \in written THEN texts[last(f)] ELSE folder[f]]

(***************************************************************************)
(* write_xsfs: the structure exporter (the same code in the generate and   *)
(* the predict calculation).                                               *)
(***************************************************************************)
\* the file name without the padding
xsf_file_unpadded(i, n) == str(i) \o ".xsf"

\* the file name of the i-th structure (i counted from 1) of n
xsf_file(i, n) == zfill(str(i), Len(str(n))) \o ".xsf"

\* one PRIMCOORD line: forces[j] of the atom at sites[j]
coord_line(atom, force) ==
    <<atom.kind_name,
      fixed12(atom.position[1]), fixed12(atom.position[2]),
      fixed12(atom.position[3]),
      fixed12(force[1]), fixed12(force[2]), fixed12(force[3])>>

\* forces[j] raises IndexError at the first site without a force vector
forces_missing(pw) == Len(pw.forces) < Len(pw.sites)

\* the exporter reading forces[0] for every atom
xsf_first_force(pw) ==
    << <<"#", pw.label>>, <<>>,
       <<"#", "total", "energy", "=", pw.energy, "eV">>, <<>>,
       <<"CRYSTAL">>, <<"PRIMVEC">> >>
    \o [k \in 1 .. 3 |-> [c \in 1 .. 3 |-> float_str(pw.cell[k][c])]]
    \o << <<"PRIMCOORD">>, <<str(Len(pw.sites)), "1">> >>
    \o [j \in 1 .. Len(pw.sites) |-> coord_line(pw.sites[j], pw.forces[1])]

xsf(pw) ==
    << <<"#", pw.label>>, <<>>,
       <<"#", "total", "energy", "=", pw.energy, "eV">>, <<>>,
       <<"CRYSTAL">>, <<"PRIMVEC">> >>
    \o [k \in 1 .. 3 |-> [c \in 1 .. 3 |-> float_str(pw.cell[k][c])]]
    \o << <<"PRIMCOORD">>, <<str(Len(pw.sites)), "1">> >>
    \o [j \in 1 .. Len(pw.sites) |-> coord_line(pw.sites[j], pw.forces[j])]

\* the number of structures exported before the loop raises (all of them
\* when it does not raise)
exported(reference_list) ==
    LET bad == {i \in DOMAIN reference_list :
                    forces_missing(load_node(reference_list[i]))}
    IN  IF bad = {} THEN Len(reference_list)
        ELSE (CHOOSE i \in bad : \A j \in bad : i <= j) - 1

\* the exporter adding the names to the list of the earlier call
write_xsfs_appends(calc, reference_list) ==
    LET n == exported(reference_list)
        names == [i \in 1 .. n |-> xsf_file(i, Len(reference_list))]
        texts == [i \in 1 .. n |-> xsf(load_node(reference_list[i]))]
    IN  [folder |-> write_all(calc.folder, names, texts),
         xsf_file_list |-> calc.xsf_file_list \o names]

\* line 82 empties self.xsf_file_list before the loop fills it
write_xsfs(calc, reference_list) ==
    LET n == exported(reference_list)
        names == [i \in 1 .. n |-> xsf_file(i, Len(reference_list))]
        texts == [i \in 1 .. n |-> xsf(load_node(reference_list[i]))]
    IN  [folder |-> write_all(calc.folder, names, texts),
         xsf_file_list |-> names]

\* the exporter swallowing the exception of the loop
write_xsfs_swallows(reference_list) == "none"

write_xsfs_raises(reference_list) ==
    IF exported(reference_list) < Len(reference_list)
    THEN "IndexError" ELSE "none"

(***************************************************************************)
(* The descriptor encoders of AenetGenerateCalculation.  Each returns      *)
(* [raises |-> exception or "none", lines |-> the fingerprint lines].      *)
(***************************************************************************)
\* hasattr(e, "symbol") of an item the elements attribute iterates over: the
\* attribute is the stored dictionary, its items are the str keys
has_symbol(e) == FALSE

\* hasattr(self, "parameters") of the calculation: CalcJob defines none
has_parameters == FALSE

\* lines 188-200: one G=2 record per symbol and radial eta, symbol-major
radial_fingerprints(symbols, g2_etas, Rc) ==
    [k \in 1 .. (Len(symbols) * Len(g2_etas)) |->
        <<"G=2",
          "type2=" \o symbols[((k - 1) \div Len(g2_etas)) + 1],
          "eta=" \o g2_etas[((k - 1) % Len(g2_etas)) + 1],
          "Rs=0.0", "Rc=(" \o Rc \o ",)">>]

\* line 202: set(combinations_with_replacement(symbols, len(symbols))), the
\* non-decreasing index tuples of length len(symbols)
permutations(symbols) ==
    {[i \in DOMAIN symbols |-> symbols[t[i]]] :
        t \in {u \in [DOMAIN symbols -> DOMAIN symbols] :
                  \A i, j \in DOMAIN symbols : i <= j => u[i] <= u[j]}}

\* lines 205-225: the append is in the body of the lambda loop, after the
\* eta loop; fingerprint holds what the last iteration of the two inner
\* loops assigned (the set is iterated in an order the code does not fix)
angular_fingerprints(symbols, G4, Rc) ==
    LET pair == CHOOSE t \in permutations(symbols) : TRUE
    IN  [k \in 1 .. (Len(G4.zetas) * Len(G4.lambdas)) |->
            <<"G=4", "type2=" \o pair[1], "type3=" \o pair[2],
              "eta=" \o G4.etas[Len(G4.etas)],
              "lambda=" \o G4.lambdas[((k - 1) % Len(G4.lambdas)) + 1],
              "zeta=" \o G4.zetas[((k - 1) \div Len(G4.lambdas)) + 1],
              "Rc=(" \o Rc \o ",)">>]

behler(elements, parameters) ==
    IF \E i \in DOMAIN elements : ~has_symbol(elements[i])
    THEN [raises |-> "AttributeError", lines |-> <<>>]     \* e.symbol
    ELSE IF ~has_parameters
    THEN [raises |-> "AttributeError", lines |-> <<>>]     \* self.parameters
    ELSE IF Len(parameters.G4.zetas) > 0 /\ Len(parameters.G4.lambdas) > 0
              /\ Len(parameters.G4.etas) > 0 /\ Len(elements) # 2
    THEN [raises |-> "ValueError", lines |-> <<>>]         \* (t2, t3) unpack
    ELSE IF Len(parameters.G4.zetas) > 0 /\ Len(parameters.G4.lambdas) > 0
              /\ Len(parameters.G4.etas) = 0
    THEN [raises |-> "UnboundLocalError", lines |-> <<>>]  \* fingerprint
    ELSE LET fingerprints ==
                 radial_fingerprints(keys(elements), parameters.G2.etas,
                                     parameters.cutoff)
                 \o angular_fingerprints(keys(elements), parameters.G4,
                                         parameters.cutoff)
         IN  [raises |-> "none",
              lines |-> << <<"SYMMFUNC", "type=Behler2011">>,
                           <<str(Len(fingerprints))>> >> \o fingerprints
                        \o << <<>> >>]

\* parameters.setdefault(key, default); parameters[key]
setdefault(parameters, key, default) ==
    IF key \in DOMAIN parameters THEN parameters[key] ELSE default

chebyshev(parameters) ==
    [raises |-> "none",
     lines |-> << <<"BASIS", "type=Chebyshev">>,
                  <<"radial_Rc", "=",
                    setdefault(parameters, "radial cutoff", "4.0"),
                    "radial_N", "=", setdefault(parameters, "radial n", "6"),
                    "angular_Rc", "=",
                    setdefault(parameters, "angular cutoff", "4.0"),
                    "angular_N", "=",
                    setdefault(parameters, "angular n", "2")>> >>]

\* getattr(self, descriptor["type"])()
fingerprint_lines(alg) ==
    IF alg.descriptor.type = "behler"
    THEN behler(alg.elements, alg.descriptor.parameters)
    ELSE chebyshev(alg.descriptor.parameters)

(***************************************************************************)
(* write_setups: one X.stp per element; the first element whose encoder    *)
(* raises ends the loop before its file is opened.                         *)
(***************************************************************************)
stp_lines(alg, element) ==
    << <<"DESCR">>, <<"Setup", "for", element>>, <<"END", "DESCR">>, <<>>,
       <<"ATOM", element>>, <<>>, <<"ENV", str(Len(alg.elements))>> >>
    \o [i \in DOMAIN alg.elements |-> <<alg.elements[i].key>>]
    \o << <<>>, <<"RMIN", alg.r_min \o "d0">>, <<>> >>
    \o fingerprint_lines(alg).lines

write_setups_raises(alg) ==
    IF Len(alg.elements) = 0 THEN "none" ELSE fingerprint_lines(alg).raises

write_setups(calc, alg) ==
    IF write_setups_raises(alg) # "none" THEN calc
    ELSE [calc EXCEPT !.folder =
            write_all(calc.folder,
                      [i \in DOMAIN alg.elements |->
                          alg.elements[i].key \o ".stp"],
                      [i \in DOMAIN alg.elements |->
                          stp_lines(alg, alg.elements[i].key)])]

(***************************************************************************)
(* AenetGenerateCalculation.write_input: the text of generate.in.          *)
(***************************************************************************)
generate_write_input(calc, alg, reference_list) ==
    << <<"OUTPUT", "train.dat">>, <<>> >>
    \o (IF alg.debug THEN << <<"DEBUG">> >> ELSE <<>>)
    \o (IF alg.timing THEN << <<"TIMING">> >> ELSE <<>>)
    \o << <<"TYPES">>, <<str(Len(alg.elements))>> >>
    \o [i \in DOMAIN alg.elements |->
          <<alg.elements[i].key, alg.elements[i].energy, "!", "eV">>]
    \o << <<>>, <<"SETUPS">> >>
    \o [i \in DOMAIN alg.elements |->
          <<alg.elements[i].key, alg.elements[i].key \o ".stp">>]
    \o << <<>>, <<"FILES">>, <<str(Len(reference_list))>> >>
    \o [i \in DOMAIN calc.xsf_file_list |-> <<calc.xsf_file_list[i]>>]

(***************************************************************************)
(* AenetPotential.  The node is [attributes, objects]: the attributes by   *)
(* key and the stored objects (file name -> content).  The data argument   *)
(* is a dictionary that may hold "file_contents" (file name -> content)    *)
(* and "element_names" (a list).  An optional value is <<>> for None and   *)
(* <<v>> for the value v.  A digest is written <<"md5", content>>: equal   *)
(* contents have equal digests and different contents different ones.      *)
(***************************************************************************)
None == <<>>

Some(v) == <<v>>

md5(data) == <<"md5", data>>

\* the symbols a network file may be named after, in sorted order
NetworkSymbols == <<"Cu", "Ni", "P">>

\* the names of the files of a potential, in sorted order
NetworkFiles == [i \in DOMAIN NetworkSymbols |-> NetworkSymbols[i] \o ".nn"]

\* sorted(names) of names without repetition, taken from `universe`
sorted(names, universe) == SelectSeq(universe, LAMBDA x : x \in names)

pot_lines_fname == "potential_lines.txt"

\* ANN.get_input_potential_lines: the pair_style and pair_coeff template
get_input_potential_lines ==
    << <<"pair_style", "aenet">>,
       <<"pair_coeff", "*", "*", "v-1", "__kinds__", "nn", "__kinds__">> >>

\* ANN.validate_data on `data or {}`: the assertion on "file_contents"
validate_data_raises(data) ==
    IF "file_contents" \in DOMAIN data THEN "none" ELSE "AssertionError"

\* ANN.allowed_element_names: data.get("element_names", None)
allowed_element_names(data) ==
    IF "element_names" \in DOMAIN data THEN Some(data["element_names"])
    ELSE None

\* the attribute key "md5|{}".format(file.replace(".", "_"))
md5_key(file) ==
    LET X == CHOOSE i \in DOMAIN NetworkFiles : NetworkFiles[i] = file
    IN  "md5|" \o NetworkSymbols[X] \o "_nn"

\* a node that has no attribute and no object yet
NewNode == [attributes |-> EmptyDict, objects |-> EmptyFolder]

\* Node.set_attribute on the attributes of a node
set_attribute(attributes, key, value) ==
    [k \in DOMAIN attributes \cup {key} |->
        IF k = key THEN value ELSE attributes[k]]

set_file_data(node, lines, files) ==
    LET external_files == DOMAIN files
        md5_keys == {md5_key(file) : file \in external_files}
        file_of(key) == CHOOSE file \in external_files : md5_key(file) = key
        hashed ==
            [k \in DOMAIN node.attributes \cup md5_keys
                      \cup {"md5|input_lines"}
                |-> IF k = "md5|input_lines" THEN md5(lines)
                    ELSE IF k \in md5_keys THEN md5(files[file_of(k)])
                    ELSE node.attributes[k]]
    IN  [attributes |->
             set_attribute(hashed, "external_files",
                           sorted(external_files, NetworkFiles)),
         \* the objects written, the others deleted
         objects |->
             [f \in external_files \cup {pot_lines_fname} |->
                 IF f \in external_files THEN files[f] ELSE lines]]

set_data(node, data) ==
    LET elements == allowed_element_names(data)
        typed ==
            [k \in DOMAIN node.attributes
                     \cup {"potential_type", "atom_style", "default_units"}
                |-> IF k = "potential_type" THEN "lammps.ann"
                    ELSE IF k = "atom_style" THEN "atomic"
                    ELSE IF k = "default_units" THEN "metal"
                    ELSE node.attributes[k]]
        named ==
            set_attribute(typed, "allowed_element_names",
                \* sorted(elements) if elements else elements
                IF elements # None /\ elements[1] # <<>>
                THEN Some(sorted(Range(elements[1]), NetworkSymbols))
                ELSE elements)
    IN  IF validate_data_raises(data) # "none" THEN node
        ELSE set_file_data([node EXCEPT !.attributes = named],
                           get_input_potential_lines,
                           data["file_contents"])

get_external_files(node) == node.attributes["external_files"]

get_object_content(node, file) == node.objects[file]

\* the content of a network file as a run of train.x numbered `version` saved
\* it
Binary(version) == << <<"binary", str(version)>> >>

(***************************************************************************)
(* AenetTrainParser.parse_potential_data: the network files of the         *)
(* retrieved folder become an AenetPotential that carries the metrics.     *)
(***************************************************************************)
\* the names without the one of the last element
ann_potential_files_without_last(alg) ==
    [i \in 1 .. (Len(alg.elements) - 1) |-> alg.elements[i].key \o ".nn"]

\* [f"{X}.nn" for X in algorithm.elements]
ann_potential_files(alg) ==
    [i \in DOMAIN alg.elements |-> alg.elements[i].key \o ".nn"]

\* retrieved.open(f"{element}.nn", "rb") of a file that was not retrieved
parse_potential_data_raises(alg, folder) ==
    IF {alg.elements[i].key \o ".nn" : i \in DOMAIN alg.elements}
           \subseteq DOMAIN folder
    THEN "none"
    ELSE "FileNotFoundError"

parse_potential_data(alg, folder, output_data) ==
    LET ann_data ==
            [file_contents |->
                [f \in {alg.elements[i].key \o ".nn" :
                            i \in DOMAIN alg.elements} |-> folder[f]]]
        built == set_data(NewNode, ann_data)
        metrics == {"epochs", "train_mae", "train_rmse", "test_mae",
                    "test_rmse"}
    IN  [built EXCEPT !.attributes =
            [k \in DOMAIN @ \cup metrics |->
                IF k \in metrics THEN output_data[k] ELSE @[k]]]

\* the learning curve of a training run of two epochs
TwoEpochs ==
    [epochs |-> <<"0", "1">>, train_mae |-> <<"0.5", "0.4">>,
     train_rmse |-> <<"0.6", "0.5">>, test_mae |-> <<"0.7", "0.3">>,
     test_rmse |-> <<"0.8", "0.2">>]

\* the potential the train parser returns for the algorithm when train.x
\* saved every network once
TrainedPotential(alg) ==
    parse_potential_data(
        alg, [f \in {alg.elements[i].key \o ".nn" :
                         i \in DOMAIN alg.elements} |-> Binary(1)],
        TwoEpochs)

(***************************************************************************)
(* AenetPredictCalculation: write_potentials and write_input.              *)
(***************************************************************************)
\* every file of potential.get_external_files() is written with the content
\* of the stored object
write_potentials(calc, pot) ==
    LET files == get_external_files(pot)
    IN  [calc EXCEPT !.folder =
            write_all(calc.folder, files,
                      [i \in DOMAIN files |->
                          get_object_content(pot, files[i])])]

\* "\n".join(input_lines) raises TypeError when predict_relax, a bool, was
\* added to the lines
predict_write_input_raises(alg) ==
    IF alg.predict_relax THEN "TypeError" ELSE "none"

predict_write_input(calc, alg, reference_list) ==
    << <<"TYPES">>, <<str(Len(alg.elements))>> >>
    \o [i \in DOMAIN alg.elements |-> <<alg.elements[i].key>>]
    \o << <<>>, <<"NETWORKS">> >>
    \o [i \in DOMAIN alg.elements |->
          <<alg.elements[i].key, alg.elements[i].key \o ".nn">>]
    \o << <<>> >>
    \o (IF alg.predict_forces THEN << <<"FORCES">> >> ELSE <<>>)
    \o (IF alg.timing THEN << <<"TIMING">> >> ELSE <<>>)
    \o << <<>>, <<"FILES">>, <<str(Len(reference_list))>> >>
    \o [i \in DOMAIN calc.xsf_file_list |-> <<calc.xsf_file_list[i]>>]

(***************************************************************************)
(* Reading the texts back.                                                 *)
(***************************************************************************)
\* the index of the first line of text equal to line, 0 when there is none
index_of(text, line) ==
    IF \E i \in DOMAIN text : text[i] = line
    THEN CHOOSE i \in DOMAIN text :
             text[i] = line /\ \A j \in 1 .. (i - 1) : text[j] # line
    ELSE 0

\* the lines of a control file after its FILES keyword: the count, then the
\* file names
files_section(text) ==
    LET k == index_of(text, <<"FILES">>)
    IN  IF k = 0 THEN <<>> ELSE SubSeq(text, k + 1, Len(text))

files_names(text) ==
    LET sec == files_section(text)
    IN  [i \in 1 .. (Len(sec) - 1) |-> sec[i + 1][1]]

\* the atom count a structure file states on the line after PRIMCOORD
primcoord_count(text) ==
    LET f == text[index_of(text, <<"PRIMCOORD">>) + 1][1]
    IN  CHOOSE n \in 0 .. 99 : str(n) = f

\* the coordinate lines of a structure file: all that follows the count line
coordinate_lines(text) ==
    SubSeq(text, index_of(text, <<"PRIMCOORD">>) + 2, Len(text))

(***************************************************************************)
(* predict.x, the external program, as the parser sees it: after the       *)
(* 'Energy evaluation' banner one block per file of the FILES section, in  *)
(* that order, then the closing line.  A line of predict.out is            *)
(*   [kind, form, val, blk]                                                *)
(* kind "natoms" is a 'Number of atoms' line, "energy" a 'Total energy'    *)
(* line, "eval" the banner, "done" the closing line, "other" any other     *)
(* line; blk is the structure block the line belongs to (0: none).         *)
(***************************************************************************)
OutLine(kind, form, val, blk) ==
    [kind |-> kind, form |-> form, val |-> val, blk |-> blk]

\* the energy predict.x reports for a structure file
predicted_energy(text) == 0 - (100 * primcoord_count(text) + 5)

\* block i of the output; omit names the line left out of it
block(i, text, omit) ==
    << OutLine("other", "", i, i) >>
    \o (IF omit = "natoms" THEN <<>>
        ELSE << OutLine("natoms", "std", primcoord_count(text), i) >>)
    \o (IF omit = "energy" THEN <<>>
        ELSE << OutLine("energy", "dec", predicted_energy(text), i) >>)

RECURSIVE blocks(_, _, _, _)
blocks(names, folder, i, omitted) ==
    IF i > Len(names) THEN <<>>
    ELSE block(i, folder[names[i]],
               IF omitted[1] = i THEN omitted[2] ELSE "")
         \o blocks(names, folder, i + 1, omitted)

\* omitted = <<i, "natoms" or "energy">> leaves that line out of block i
\* (<<0, "">>: nothing left out); stop = number of blocks written before the
\* program ended (all of them: the closing line is written too)
predict_out(folder, omitted, stop) ==
    LET names == files_names(folder["predict.in"])
    IN  << OutLine("other", "", 0, 0), OutLine("eval", "", 0, 0) >>
        \o blocks(SubSeq(names, 1, stop), folder, 1, omitted)
        \o (IF stop = Len(names)
            THEN << OutLine("done", "", 0, 0) >> ELSE <<>>)

(***************************************************************************)
(* AenetPredictParser.parse_output.                                        *)
(***************************************************************************)
ScanStart ==
    [energy_evaluation |-> FALSE, natoms |-> <<>>, energies |-> <<>>,
     stopped |-> FALSE, raises |-> "none"]

\* the loop body extracting from every line, activated or not
scan_line_from_start(st, line) ==
    IF st.stopped \/ st.raises # "none" THEN st
    ELSE CASE line.kind = "natoms" ->
                [st EXCEPT !.natoms = Append(@, line.val)]
           [] line.kind = "energy" ->
                [st EXCEPT !.energies = Append(@, line.val)]
           [] line.kind = "done" -> [st EXCEPT !.stopped = TRUE]
           [] OTHER -> st

\* the body of the loop over the lines of predict.out, for one line
scan_line(st, line) ==
    IF st.stopped \/ st.raises # "none" THEN st
    ELSE IF ~st.energy_evaluation /\ line.kind # "eval" THEN st
    ELSE LET on == [st EXCEPT !.energy_evaluation = TRUE]
         IN  CASE line.kind = "natoms" ->
                    \* int(line.replace(' Number of atoms   :', ''))
                    IF line.form = "std"
                    THEN [on EXCEPT !.natoms = Append(@, line.val)]
                    ELSE [on EXCEPT !.raises = "ValueError"]
               [] line.kind = "energy" ->
                    \* float(re.findall(r'[-+]?\d*\.\d+|\d+', line)[0]): a
                    \* number with a point keeps its sign, one without
                    \* matches the second alternative and loses it
                    IF line.form = "dec"
                    THEN [on EXCEPT !.energies = Append(@, line.val)]
                    ELSE IF line.form = "int"
                    THEN [on EXCEPT !.energies = Append(@, Abs(line.val))]
                    ELSE [on EXCEPT !.raises = "IndexError"]
               [] line.kind = "done" -> [on EXCEPT !.stopped = TRUE]
               [] OTHER -> on

RECURSIVE scan(_, _)
scan(lines, k) ==
    IF k = 0 THEN ScanStart ELSE scan_line(scan(lines, k - 1), lines[k])

\* the records paired with the identifiers in reverse
zip_reversed(pks, natoms, energies) ==
    LET m == Min(Len(pks), Min(Len(natoms), Len(energies)))
    IN  [i \in 1 .. m |->
            [key |-> str(pks[m + 1 - i]), n |-> natoms[i], E |-> energies[i]]]

\* zip(pks, natoms, energies): as many triples as the shortest of the three
zip(pks, natoms, energies) ==
    [i \in 1 .. Min(Len(pks), Min(Len(natoms), Len(energies))) |->
        [key |-> str(pks[i]), n |-> natoms[i], E |-> energies[i]]]

\* d[item.key] = {"n": item.n, "E": item.E} on a dict kept as the sequence
\* of its items: a key already present keeps its place and takes the value
dict_put(d, item) ==
    IF \E i \in DOMAIN d : d[i].key = item.key
    THEN [i \in DOMAIN d |-> IF d[i].key = item.key THEN item ELSE d[i]]
    ELSE Append(d, item)

RECURSIVE dict_from(_)
dict_from(items) ==
    IF items = <<>> THEN <<>>
    ELSE dict_put(dict_from(SubSeq(items, 1, Len(items) - 1)),
                  items[Len(items)])

predict_parse_output(pks, lines) ==
    LET st == scan(lines, Len(lines))
    IN  [raises |-> st.raises,
         natoms |-> st.natoms, energies |-> st.energies,
         pk_dict |-> IF st.raises # "none" THEN <<>>
                     ELSE dict_from(zip(pks, st.natoms, st.energies))]

(***************************************************************************)
(* The pipeline: the generate calculation prepares its folder, then the    *)
(* predict calculation prepares its own, predict.x runs on it and the      *)
(* parser reads predict.out.                                               *)
(***************************************************************************)
Init ==
    /\ algorithm \in Algorithms
    /\ reference \in References
    /\ pc = "generate.write_xsfs"
    /\ err = "none"
    /\ generate_calc = NewCalc
    /\ predict_calc = NewCalc
    /\ retrieved = <<>>
    /\ results = <<>>
    /\ args = NoArgs
    /\ train_calc = NewCalc
    /\ workchain = NoWorkChain
    /\ processes = <<>>
    /\ potential = TrainedPotential(algorithm)
    /\ calcinfo = NoCalcInfo
    /\ structure = NoStructure
    /\ simulate_calc = NewCalc

\* an exception `raises` ends the run; otherwise the pipeline goes on to next
Goto(raises, next) ==
    /\ err' = raises
    /\ pc' = IF raises # "none" THEN "excepted" ELSE next

GenerateWriteXsfs ==
    /\ pc = "generate.write_xsfs"
    /\ generate_calc' = write_xsfs(generate_calc, reference)
    /\ Goto(write_xsfs_raises(reference), "generate.write_setups")
    /\ UNCHANGED <<args, train_calc, workchain, processes,
                   potential, calcinfo, structure, simulate_calc>>
    /\ UNCHANGED <<algorithm, reference, predict_calc, retrieved, results>>

GenerateWriteSetups ==
    /\ pc = "generate.write_setups"
    /\ generate_calc' = write_setups(generate_calc, algorithm)
    /\ Goto(write_setups_raises(algorithm), "generate.write_input")
    /\ UNCHANGED <<args, train_calc, workchain, processes,
                   potential, calcinfo, structure, simulate_calc>>
    /\ UNCHANGED <<algorithm, reference, predict_calc, retrieved, results>>

GenerateWriteInput ==
    /\ pc = "generate.write_input"
    /\ generate_calc' =
          [generate_calc EXCEPT !.folder =
              write_all(@, <<"generate.in">>,
                        <<generate_write_input(generate_calc, algorithm,
                                               reference)>>)]
    /\ Goto("none", "predict.write_xsfs")
    /\ UNCHANGED <<args, train_calc, workchain, processes,
                   potential, calcinfo, structure, simulate_calc>>
    /\ UNCHANGED <<algorithm, reference, predict_calc, retrieved, results>>

PredictWriteXsfs ==
    /\ pc = "predict.write_xsfs"
    /\ predict_calc' = write_xsfs(predict_calc, reference)
    /\ Goto(write_xsfs_raises(reference), "predict.write_potentials")
    /\ UNCHANGED <<args, train_calc, workchain, processes,
                   potential, calcinfo, structure, simulate_calc>>
    /\ UNCHANGED <<algorithm, reference, generate_calc, retrieved, results>>

PredictWritePotentials ==
    /\ pc = "predict.write_potentials"
    /\ predict_calc' = write_potentials(predict_calc, potential)
    /\ Goto("none", "predict.write_input")
    /\ UNCHANGED <<args, train_calc, workchain, processes,
                   potential, calcinfo, structure, simulate_calc>>
    /\ UNCHANGED <<algorithm, reference, generate_calc, retrieved, results>>

PredictWriteInput ==
    /\ pc = "predict.write_input"
    /\ predict_calc' =
          IF predict_write_input_raises(algorithm) # "none" THEN predict_calc
          ELSE [predict_calc EXCEPT !.folder =
                  write_all(@, <<"predict.in">>,
                            <<predict_write_input(predict_calc, algorithm,
                                                  reference)>>)]
    /\ Goto(predict_write_input_raises(algorithm), "predict.x")
    /\ UNCHANGED <<args, train_calc, workchain, processes,
                   potential, calcinfo, structure, simulate_calc>>
    /\ UNCHANGED <<algorithm, reference, generate_calc, retrieved, results>>

\* how a run of predict.x may end: complete, with one line of one block
\* missing, or stopped after fewer blocks than files
Runs(n) ==
    {<<<<0, "">>, n>>}
        \cup {<<<<i, k>>, n>> : i \in 1 .. n, k \in {"natoms", "energy"}}
        \cup {<<<<0, "">>, s>> : s \in 0 .. (n - 1)}

PredictX ==
    /\ pc = "predict.x"
    /\ \E run \in Runs(Len(files_names(predict_calc.folder["predict.in"]))) :
          retrieved' = predict_out(predict_calc.folder, run[1], run[2])
    /\ Goto("none", "predict.parse")
    /\ UNCHANGED <<args, train_calc, workchain, processes,
                   potential, calcinfo, structure, simulate_calc>>
    /\ UNCHANGED <<algorithm, reference, generate_calc, predict_calc, results>>

PredictParse ==
    /\ pc = "predict.parse"
    /\ results' = predict_parse_output(reference, retrieved).pk_dict
    /\ Goto(predict_parse_output(reference, retrieved).raises, "finished")
    /\ UNCHANGED <<args, train_calc, workchain, processes,
                   potential, calcinfo, structure, simulate_calc>>
    /\ UNCHANGED <<algorithm, reference, generate_calc, predict_calc,
                   retrieved>>

Next ==
    \/ GenerateWriteXsfs
    \/ GenerateWriteSetups
    \/ GenerateWriteInput
    \/ PredictWriteXsfs
    \/ PredictWritePotentials
    \/ PredictWriteInput
    \/ PredictX
    \/ PredictParse

Spec == Init /\ [][Next]_vars

(***************************************************************************)
(* AenetTrainParser.parse_output.  A line of train.out is [kind, fields]:  *)
(* "header" is the line holding the heading of the metrics table,          *)
(* "converged" the convergence announcement, "blank" an empty line, "row"  *)
(* a line of six columns (fields: the epoch and the four metrics, as       *)
(* written; the sixth is the one-character mark), "other" any other text.  *)
(***************************************************************************)
TrainLine(kind, fields) == [kind |-> kind, fields |-> fields]

TrainOutLines ==
    { TrainLine("header", <<>>), TrainLine("converged", <<>>),
      TrainLine("blank", <<>>), TrainLine("other", <<>>),
      TrainLine("row", <<"0", "0.5", "0.6", "0.7", "0.8">>),
      TrainLine("row", <<"1", "0.4", "NaN", "0.3", "0.2">>),
      TrainLine("row", <<"2", "0.3", "0.2", "***", "0.1">>) }

\* i after the loop over enumerate(lines), counted from 1: the first header
\* line, the last line when there is none (0: the loop never ran and i is
\* unbound)
header_index(lines) ==
    IF \E i \in DOMAIN lines : lines[i].kind = "header"
    THEN CHOOSE i \in DOMAIN lines :
             /\ lines[i].kind = "header"
             /\ \A j \in 1 .. (i - 1) : lines[j].kind # "header"
    ELSE Len(lines)

\* the slice running to the end of the file, cut at the convergence
\* announcement
epoch_lines_to_end(lines, n_epochs) ==
    LET h == header_index(lines)
        window == SubSeq(lines, h + 1, Len(lines))
    IN  IF \E k \in DOMAIN window : window[k].kind = "converged"
        THEN SubSeq(window, 1,
                    (CHOOSE k \in DOMAIN window :
                        /\ window[k].kind = "converged"
                        /\ \A j \in 1 .. (k - 1) :
                              window[j].kind # "converged") - 1)
        ELSE window

\* lines[i + 1:min(i + n_epochs + 2, len(lines))], then cut at the
\* convergence announcement when the slice holds one
epoch_lines(lines, n_epochs) ==
    LET h == header_index(lines)
        window == SubSeq(lines, h + 1, Min(h + n_epochs + 1, Len(lines)))
    IN  IF \E k \in DOMAIN window : window[k].kind = "converged"
        THEN SubSeq(window, 1,
                    (CHOOSE k \in DOMAIN window :
                        /\ window[k].kind = "converged"
                        /\ \A j \in 1 .. (k - 1) :
                              window[j].kind # "converged") - 1)
        ELSE window

\* float(field) succeeds
is_float(field) == field # "***"

\* np.loadtxt: blank lines are skipped, every other line must be a row whose
\* fields convert
RECURSIVE rows_of(_)
rows_of(text) ==
    IF text = <<>> THEN <<>>
    ELSE IF text[1].kind = "blank" THEN rows_of(Tail(text))
    ELSE <<text[1].fields>> \o rows_of(Tail(text))

loadtxt_raises(text) ==
    \E k \in DOMAIN text :
        \/ text[k].kind \notin {"blank", "row"}
        \/ /\ text[k].kind = "row"
           /\ \E c \in 2 .. 5 : ~is_float(text[k].fields[c])

\* list(np.where(np.isnan(array), "NaN", array)) of column c
column(rows, c) == [k \in DOMAIN rows |-> rows[k][c]]

EmptyCurve ==
    [epochs |-> <<>>, train_mae |-> <<>>, train_rmse |-> <<>>,
     test_mae |-> <<>>, test_rmse |-> <<>>]

train_parse_output(lines, n_epochs) ==
    IF Len(lines) = 0
    THEN [raises |-> "UnboundLocalError", results |-> EmptyCurve]   \* i
    ELSE LET text == epoch_lines(lines, n_epochs)
             rows == rows_of(text)
         IN  IF loadtxt_raises(text)
             THEN [raises |-> "ValueError", results |-> EmptyCurve]
             ELSE IF Len(rows) = 1
             \* one row: loadtxt returns 0-d arrays, epochs[:n] raises
             THEN [raises |-> "IndexError", results |-> EmptyCurve]
             ELSE [raises |-> "none",
                   results |-> [epochs |-> column(rows, 1),
                                train_mae |-> column(rows, 2),
                                train_rmse |-> column(rows, 3),
                                test_mae |-> column(rows, 4),
                                test_rmse |-> column(rows, 5)]]

\* the algorithms of the parsed training runs: they differ in epochs only
TrainAlgorithms ==
    {[a EXCEPT !.epochs = e] :
        a \in {x \in Algorithms :
                  /\ x.elements = <<Ni, P>>
                  /\ x.descriptor.type = "chebyshev"
                  /\ x.descriptor.parameters = EmptyDict
                  /\ x.debug /\ x.timing
                  /\ ~x.predict_forces /\ ~x.predict_relax},
        e \in 1 .. MaxEpochs}

TrainOuts == UNION {[1 .. n -> TrainOutLines] : n \in 0 .. MaxTrainLines}

InitTrain ==
    /\ algorithm \in TrainAlgorithms
    /\ reference = <<>>
    /\ pc = "train.parse"
    /\ err = "none"
    /\ generate_calc = NewCalc
    /\ predict_calc = NewCalc
    /\ retrieved \in TrainOuts
    /\ results = EmptyCurve
    /\ args = NoArgs
    /\ train_calc = NewCalc
    /\ workchain = NoWorkChain
    /\ processes = <<>>
    /\ potential = NoNode
    /\ calcinfo = NoCalcInfo
    /\ structure = NoStructure
    /\ simulate_calc = NewCalc

TrainParse ==
    /\ pc = "train.parse"
    /\ results' = train_parse_output(retrieved, algorithm.epochs).results
    /\ Goto(train_parse_output(retrieved, algorithm.epochs).raises,
            "finished")
    /\ UNCHANGED <<args, train_calc, workchain, processes,
                   potential, calcinfo, structure, simulate_calc>>
    /\ UNCHANGED <<algorithm, reference, generate_calc, predict_calc,
                   retrieved>>

NextTrain == TrainParse

SpecTrain == InitTrain /\ [][NextTrain]_vars

(***************************************************************************)
(* Preparing the generate calculation again: prepare_for_submission is     *)
(* called on the same AenetGenerateCalculation (self.xsf_file_list lives   *)
(* on) with the same inputs, on the folder of the earlier call or on a     *)
(* fresh one.  results keeps the generate.in text of every earlier build.  *)
(***************************************************************************)
\* the algorithms of the rebuilt calculations: Chebyshev, no parameter set
RebuildAlgorithms ==
    {a \in Algorithms :
        /\ a.descriptor.type = "chebyshev"
        /\ a.descriptor.parameters = EmptyDict
        /\ ~a.predict_relax}

InitRebuild ==
    /\ algorithm \in RebuildAlgorithms
    /\ reference \in References
    /\ pc = "generate.write_xsfs"
    /\ err = "none"
    /\ generate_calc = NewCalc
    /\ predict_calc = NewCalc
    /\ retrieved = <<>>
    /\ results = <<>>
    /\ args = NoArgs
    /\ train_calc = NewCalc
    /\ workchain = NoWorkChain
    /\ processes = <<>>
    /\ potential = NoNode
    /\ calcinfo = NoCalcInfo
    /\ structure = NoStructure
    /\ simulate_calc = NewCalc

GenerateAgain ==
    /\ pc = "predict.write_xsfs"
    /\ Len(results) < MaxBuilds - 1
    /\ results' = Append(results, generate_calc.folder["generate.in"])
    /\ \E folder \in {generate_calc.folder, EmptyFolder} :
          generate_calc' = [generate_calc EXCEPT !.folder = folder]
    /\ Goto("none", "generate.write_xsfs")
    /\ UNCHANGED <<args, train_calc, workchain, processes,
                   potential, calcinfo, structure, simulate_calc>>
    /\ UNCHANGED <<algorithm, reference, predict_calc, retrieved>>

NextRebuild ==
    \/ GenerateWriteXsfs
    \/ GenerateWriteSetups
    \/ GenerateWriteInput
    \/ GenerateAgain

SpecRebuild == InitRebuild /\ [][NextRebuild]_vars

(***************************************************************************)
(* AenetAlgorithm(elements, descriptor, training, parameters): the         *)
(* constructor, and the train calculation writing train.in for the node    *)
(* it built.  The training argument is [isinstance, str, dict]: a str, a   *)
(* dict (a function of its keys) or a value of another type.               *)
(***************************************************************************)
training_methods == {"lm", "gd"}

\* set_training: the (name, default) pairs of the two methods
lm_defaults ==
    << <<"batchsize", "5000">>, <<"learn_rate", "0.1">>,
       <<"rate_adjust", "5.0">>, <<"optimize_iterations", "3">>,
       <<"converge_threshold", "0.001">> >>

gd_defaults == << <<"learn_rate", "0.003">>, <<"momentum_rate", "0.05">> >>

\* locals()[f"{type}_defaults"] where the name is a local of set_training
defaults_of(type) == IF type = "lm" THEN lm_defaults ELSE gd_defaults

\* for attr, default in default_tuple: parameters.setdefault(attr, default)
with_defaults(parameters, default_tuple) ==
    LET names == {default_tuple[i][1] : i \in DOMAIN default_tuple}
        default(k) ==
            default_tuple[CHOOSE i \in DOMAIN default_tuple :
                              default_tuple[i][1] = k][2]
    IN  [k \in DOMAIN parameters \cup names |->
            IF k \in DOMAIN parameters THEN parameters[k] ELSE default(k)]

\* set_parameters: the nine attributes, each the given value or its default
parameter_defaults ==
    [debug |-> TRUE, timing |-> TRUE, save_energies |-> TRUE,
     predict_forces |-> FALSE, predict_relax |-> FALSE,
     test_percent |-> 10, epochs |-> 10, max_energy |-> "0.0",
     r_min |-> "0.75"]

set_parameters(parameter_dict) ==
    [k \in DOMAIN parameter_dict \cup DOMAIN parameter_defaults |->
        IF k \in DOMAIN parameter_dict THEN parameter_dict[k]
        ELSE parameter_defaults[k]]

\* the exception set_training raises: training_dict["type"], the lookup of
\* the defaults among the locals, training_dict["parameters"]
set_training_raises(training_dict) ==
    IF "type" \notin DOMAIN training_dict THEN "KeyError"
    ELSE IF training_dict["type"] \notin {"lm", "gd"} THEN "KeyError"
    ELSE IF "parameters" \notin DOMAIN training_dict THEN "KeyError"
    ELSE "none"

\* the dictionary set_training stores as training_parameters
set_training(training_dict) ==
    with_defaults(training_dict["parameters"],
                  defaults_of(training_dict["type"]))

\* the exception __init__ raises for a training argument
init_raises(training) ==
    IF training.isinstance = "str"
    THEN IF training.str = "bfgs" THEN "none" ELSE "Exception"
    ELSE IF training.isinstance # "dict" THEN "Exception"
    ELSE IF "method" \notin DOMAIN training.dict THEN "KeyError"
    ELSE IF training.dict["method"] \notin training_methods THEN "Exception"
    ELSE set_training_raises(training.dict)

\* the attributes of the node __init__ returns
init_attributes(a) ==
    LET base == [elements |-> a.elements, descriptor |-> a.descriptor]
        parameters == set_parameters(a.parameters)
        method == IF a.training.isinstance = "str" THEN a.training.str
                  ELSE a.training.dict["method"]
        training == IF a.training.isinstance = "str"
                    THEN [train_method |-> method]
                    ELSE [train_method |-> method,
                          training_parameters |->
                              set_training(a.training.dict)]
    IN  [k \in DOMAIN base \cup DOMAIN parameters \cup DOMAIN training |->
            IF k \in DOMAIN base THEN base[k]
            ELSE IF k \in DOMAIN parameters THEN parameters[k]
            ELSE training[k]]

\* the arguments as __init__ leaves them: setdefault wrote the defaults into
\* the caller's parameters, and into training["parameters"] when
\* set_training got that far
init_arguments(a) ==
    LET filled == [a EXCEPT !.parameters = set_parameters(@)]
    IN  IF /\ a.training.isinstance = "dict"
           /\ "method" \in DOMAIN a.training.dict
           /\ a.training.dict["method"] \in training_methods
           /\ set_training_raises(a.training.dict) = "none"
        THEN [filled EXCEPT !.training.dict["parameters"] =
                                set_training(a.training.dict)]
        ELSE filled

\* the hyperparameters a caller supplies, by method
Supplied(method) ==
    IF method = "lm"
    THEN [batchsize |-> "100", learn_rate |-> "0.5", rate_adjust |-> "2.0",
          optimize_iterations |-> "7", converge_threshold |-> "0.01"]
    ELSE [learn_rate |-> "0.5", momentum_rate |-> "0.9"]

Restrict(f, S) == [k \in S |-> f[k]]

TrainingStr(s) == [isinstance |-> "str", str |-> s, dict |-> EmptyDict]

TrainingDict(d) == [isinstance |-> "dict", str |-> "", dict |-> d]

\* the training arguments of the model: strings; an LM or GD configuration
\* with every subset of its hyperparameters, without a "type" key or with
\* one; dictionaries lacking "method" or "parameters" or naming a method
\* that does not exist; None
TrainingArgs ==
    {TrainingStr(s) : s \in {"bfgs", "lm", "adam"}}
        \cup UNION {UNION {
            {TrainingDict([method |-> m,
                           parameters |-> Restrict(Supplied(m), S)]),
             TrainingDict([method |-> m, type |-> "lm",
                           parameters |-> Restrict(Supplied(m), S)]),
             TrainingDict([method |-> m, type |-> "gd",
                           parameters |-> Restrict(Supplied(m), S)])} :
                S \in SUBSET DOMAIN Supplied(m)} : m \in training_methods}
        \cup {TrainingDict([method |-> "lm", type |-> "lm"]),
              TrainingDict([type |-> "lm", parameters |-> EmptyDict]),
              TrainingDict([method |-> "adam", type |-> "adam",
                            parameters |-> EmptyDict]),
              TrainingDict([method |-> "gd", type |-> "adam",
                            parameters |-> EmptyDict]),
              [isinstance |-> "NoneType", str |-> "", dict |-> EmptyDict]}

\* the parameters arguments of the model
ParameterArgs ==
    { EmptyDict,
      [k \in {"timing", "save_energies", "epochs", "max_energy"} |->
          CASE k = "timing" -> FALSE [] k = "save_energies" -> FALSE
            [] k = "epochs" -> 25 [] k = "max_energy" -> "1.5"] }


(***************************************************************************)
(* AenetTrainCalculation.write_input: the text of train.in.                *)
(***************************************************************************)
RECURSIVE network_str(_)
\* the fields "nodes:activation" of the layers
network_str(network) ==
    IF network = <<>> THEN <<>>
    ELSE <<str(network[1].nodes) \o ":" \o network[1].activation>>
         \o network_str(Tail(network))

train_write_input(alg) ==
    << <<"TRAININGSET", "train.dat">>,
       <<"TESTPERCENT", str(alg.test_percent)>>,
       <<"ITERATIONS", str(alg.epochs)>>, <<>>,
       <<"MAXENERGY", alg.max_energy>>, <<>> >>
    \o (IF alg.save_energies THEN << <<"SAVE_ENERGIES">>, <<>> >> ELSE <<>>)
    \o (IF alg.timing THEN << <<"TIMING">> >> ELSE <<>>)
    \o (IF alg.debug THEN << <<"DEBUG">> >> ELSE <<>>)
    \o << <<>>, <<"METHOD">>, <<alg.train_method>>, <<>> >>
    \o << <<"NETWORKS">>, <<"!", "atom", "network", "hidden">>,
          <<"!", "types", "file-name", "layers", "nodes:activation">> >>
    \o [i \in DOMAIN alg.elements |->
          <<alg.elements[i].key, alg.elements[i].key \o ".nn",
            str(Len(alg.elements[i].network))>>
          \o network_str(alg.elements[i].network)]

InitAlgorithm ==
    /\ args \in [elements : {<<Ni, P>>},
                 descriptor : {[type |-> "chebyshev",
                                parameters |-> EmptyDict]},
                 training : TrainingArgs,
                 parameters : ParameterArgs]
    /\ algorithm = NoNode
    /\ reference = <<>>
    /\ pc = "algorithm.init"
    /\ err = "none"
    /\ generate_calc = NewCalc
    /\ predict_calc = NewCalc
    /\ retrieved = <<>>
    /\ results = <<>>
    /\ train_calc = NewCalc
    /\ workchain = NoWorkChain
    /\ processes = <<>>
    /\ potential = NoNode
    /\ calcinfo = NoCalcInfo
    /\ structure = NoStructure
    /\ simulate_calc = NewCalc

\* AenetAlgorithm.__init__
Construct ==
    /\ pc = "algorithm.init"
    /\ algorithm' = IF init_raises(args.training) # "none" THEN algorithm
                    ELSE init_attributes(args)
    /\ args' = init_arguments(args)
    /\ Goto(init_raises(args.training), "train.write_input")
    /\ UNCHANGED <<reference, generate_calc, predict_calc, retrieved,
                   results, train_calc, workchain, processes,
                   potential, calcinfo, structure, simulate_calc>>

\* AenetTrainCalculation.prepare_for_submission
TrainWriteInput ==
    /\ pc = "train.write_input"
    /\ train_calc' =
          [train_calc EXCEPT !.folder =
              write_all(@, <<"train.in">>, <<train_write_input(algorithm)>>)]
    /\ Goto("none", "finished")
    /\ UNCHANGED <<algorithm, reference, generate_calc, predict_calc,
                   retrieved, results, args, workchain, processes,
                   potential, calcinfo, structure, simulate_calc>>

NextAlgorithm ==
    \/ Construct
    \/ TrainWriteInput

SpecAlgorithm == InitAlgorithm /\ [][NextAlgorithm]_vars

(***************************************************************************)
(* The prediction parser on a predict.out of any shape: the two sentinels, *)
(* atom-count lines and energy lines in any order.                         *)
(***************************************************************************)
PredictOutLines ==
    { OutLine("eval", "", 0, 0), OutLine("done", "", 0, 0),
      OutLine("natoms", "std", 1, 0), OutLine("natoms", "std", 2, 0),
      OutLine("energy", "dec", -105, 0) }

PredictOuts == UNION {[1 .. n -> PredictOutLines] : n \in 0 .. MaxOutLines}

InitPredictOut ==
    /\ algorithm \in {a \in RebuildAlgorithms :
                         a.elements = <<Ni, P>> /\ a.debug /\ a.timing}
    /\ reference = <<1, 2, 3>>
    /\ pc = "predict.parse"
    /\ err = "none"
    /\ generate_calc = NewCalc
    /\ predict_calc = NewCalc
    /\ retrieved \in PredictOuts
    /\ results = <<>>
    /\ args = NoArgs
    /\ train_calc = NewCalc
    /\ workchain = NoWorkChain
    /\ processes = <<>>
    /\ potential = NoNode
    /\ calcinfo = NoCalcInfo
    /\ structure = NoStructure
    /\ simulate_calc = NewCalc

NextPredictOut == PredictParse

SpecPredictOut == InitPredictOut /\ [][NextPredictOut]_vars

(***************************************************************************)
(* MakePotentialWorkChain.  The outline runs one step at a time; a step    *)
(* that returns ToContext makes the work chain wait, before its next step, *)
(* until the submitted process has terminated.  processes is the list of   *)
(* submitted calculations, each [process_class, inputs, state, outputs];   *)
(* a node a calculation created is [creator, label].                       *)
(***************************************************************************)
Node(creator, label) == [creator |-> creator, label |-> label]

\* the outputs the parser of a calculation attaches when it returns
parsed_outputs(pid, process_class) ==
    CASE process_class = "AenetGenerateCalculation" ->
            [train_file |-> Node(pid, "train_file")]
      [] process_class = "AenetTrainCalculation" ->
            [potential |-> Node(pid, "potential")]
      [] process_class = "AenetPredictCalculation" ->
            [results |-> Node(pid, "results")]
      [] process_class \in {"MdMultiCalculation", "AenetLammpsMdCalculation"}
            -> [results |-> Node(pid, "results")]

NoOutputs == [label \in {} |-> Node(0, "")]

\* how a calculation ends: finished with its outputs, finished with a
\* non-zero exit status, excepted (a parser that raises) or killed, the
\* last three without outputs
Terminations(pid, process_class) ==
    { [state |-> "finished", exit_status |-> 0,
       outputs |-> parsed_outputs(pid, process_class)],
      [state |-> "finished", exit_status |-> 1, outputs |-> NoOutputs],
      [state |-> "excepted", exit_status |-> 0, outputs |-> NoOutputs],
      [state |-> "killed", exit_status |-> 0, outputs |-> NoOutputs] }

\* the list of processes with a new running process of the class
submitted(running, process_class, inputs) ==
    Append(running,
           [process_class |-> process_class, inputs |-> inputs,
            state |-> "running", exit_status |-> 0, outputs |-> NoOutputs])

\* self.submit(process_class, **inputs): the list with the new process
submit(process_class, inputs) == submitted(processes, process_class, inputs)

\* the step putting the process into the context without waiting for it
ToContext_no_wait(key, pid) ==
    [workchain EXCEPT !.ctx = [k \in DOMAIN @ \cup {key} |->
                                  IF k = key THEN pid ELSE @[k]]]

\* return ToContext(key=process): the process is awaited and the context
\* holds it under key
ToContext(key, pid) ==
    [workchain EXCEPT !.ctx = [k \in DOMAIN @ \cup {key} |->
                                  IF k = key THEN pid ELSE @[k]],
                      !.awaitables = @ \cup {pid}]

\* every awaited process has terminated: the next step of the outline runs
Resolved ==
    \A pid \in workchain.awaitables : processes[pid].state # "running"

\* the reference lists given to the work chain
WorkChainReferences == {<<1>>, <<1, 2>>, <<3, 2>>}

InitWorkChain ==
    /\ algorithm \in RebuildAlgorithms
    /\ reference \in WorkChainReferences
    /\ pc = "setup"
    /\ err = "none"
    /\ generate_calc = NewCalc
    /\ predict_calc = NewCalc
    /\ retrieved = <<>>
    /\ results = <<>>
    /\ args = NoArgs
    /\ train_calc = NewCalc
    /\ workchain = [ctx |-> EmptyDict, awaitables |-> {},
                    outputs |-> NoOutputs]
    /\ processes = <<>>
    /\ potential = NoNode
    /\ calcinfo = NoCalcInfo
    /\ structure = NoStructure
    /\ simulate_calc = NewCalc

WorkChainUnchanged ==
    UNCHANGED <<algorithm, reference, generate_calc, predict_calc,
                retrieved, results, args, train_calc,
                potential, calcinfo, structure, simulate_calc>>

\* setup: the exposed inputs of the three namespaces go to the context
WorkChainSetup ==
    /\ pc = "setup"
    /\ workchain' =
          [workchain EXCEPT !.ctx =
              [k \in {"generate", "train", "predict"} |->
                  [code |-> k \o ".x"]]]
    /\ Goto("none", "generate")
    /\ UNCHANGED processes
    /\ WorkChainUnchanged

WorkChainGenerate ==
    /\ pc = "generate"
    /\ Resolved
    /\ processes' =
          submit("AenetGenerateCalculation",
                 [code |-> workchain.ctx["generate"].code,
                  reference |-> reference, algorithm |-> algorithm])
    /\ workchain' = ToContext("generate_calc", Len(processes) + 1)
    /\ Goto("none", "train")
    /\ WorkChainUnchanged

\* self.ctx.generate_calc.outputs.train_file raises when the generate
\* calculation has no such output
WorkChainTrain ==
    /\ pc = "train"
    /\ Resolved
    /\ LET generate_x == processes[workchain.ctx["generate_calc"]]
       IN  IF "train_file" \notin DOMAIN generate_x.outputs
           THEN /\ Goto("AttributeError", "predict")
                /\ UNCHANGED <<workchain, processes>>
           ELSE /\ processes' =
                      submit("AenetTrainCalculation",
                             [code |-> workchain.ctx["train"].code,
                              algorithm |-> algorithm,
                              train_file |-> generate_x.outputs.train_file])
                /\ workchain' = ToContext("train_calc", Len(processes) + 1)
                /\ Goto("none", "predict")
    /\ WorkChainUnchanged

WorkChainPredict ==
    /\ pc = "predict"
    /\ Resolved
    /\ LET train_x == processes[workchain.ctx["train_calc"]]
       IN  IF "potential" \notin DOMAIN train_x.outputs
           THEN /\ Goto("AttributeError", "get_potential")
                /\ UNCHANGED <<workchain, processes>>
           ELSE /\ processes' =
                      submit("AenetPredictCalculation",
                             [code |-> workchain.ctx["predict"].code,
                              reference |-> reference,
                              algorithm |-> algorithm,
                              potential |-> train_x.outputs.potential])
                /\ workchain' = ToContext("predict_calc", Len(processes) + 1)
                /\ Goto("none", "get_potential")
    /\ WorkChainUnchanged

\* get_potential: self.out("potential", ...)
WorkChainGetPotential ==
    /\ pc = "get_potential"
    /\ Resolved
    /\ workchain' =
          [workchain EXCEPT !.outputs =
              [potential |->
                  processes[workchain.ctx["train_calc"]].outputs.potential]]
    /\ Goto("none", "finished")
    /\ UNCHANGED processes
    /\ WorkChainUnchanged

\* a submitted calculation terminates
CalcTerminates ==
    /\ \E pid \in DOMAIN processes :
          /\ processes[pid].state = "running"
          /\ \E end \in Terminations(pid, processes[pid].process_class) :
                processes' =
                    [processes EXCEPT ![pid].state = end.state,
                                      ![pid].exit_status = end.exit_status,
                                      ![pid].outputs = end.outputs]
    /\ UNCHANGED <<pc, err, workchain>>
    /\ WorkChainUnchanged

NextWorkChain ==
    \/ WorkChainSetup
    \/ WorkChainGenerate
    \/ WorkChainTrain
    \/ WorkChainPredict
    \/ WorkChainGetPotential
    \/ CalcTerminates

SpecWorkChain == InitWorkChain /\ [][NextWorkChain]_vars

(***************************************************************************)
(* The calls on an AenetPotential: the constructor, then set_data and      *)
(* set_file_data in any order and number.                                  *)
(***************************************************************************)
\* the dictionaries of network files a caller passes: any files of the three
\* names, each in one of two versions
PotentialFiles ==
    UNION {[S -> {Binary(1), Binary(2)}] : S \in SUBSET Range(NetworkFiles)}

\* the data dictionaries: with or without "file_contents", with or without
\* "element_names" (given unsorted)
PotentialData ==
    {[file_contents |-> files] : files \in PotentialFiles}
        \cup {[file_contents |-> files, element_names |-> <<"P", "Ni">>] :
                 files \in PotentialFiles}
        \cup {EmptyDict, [element_names |-> <<"P", "Ni">>]}

\* the pair lines a caller of set_file_data passes
PotentialLines ==
    {get_input_potential_lines,
     << <<"pair_style", "aenet">>, <<"pair_coeff", "*", "*", "v00">> >>}

InitPotential ==
    /\ algorithm = NoNode
    /\ reference = <<>>
    /\ pc = "potential.init"
    /\ err = "none"
    /\ generate_calc = NewCalc
    /\ predict_calc = NewCalc
    /\ retrieved = <<>>
    /\ results = <<>>
    /\ args = NoArgs
    /\ train_calc = NewCalc
    /\ workchain = NoWorkChain
    /\ processes = <<>>
    /\ potential = NoNode
    /\ calcinfo = NoCalcInfo
    /\ structure = NoStructure
    /\ simulate_calc = NewCalc

PotentialUnchanged ==
    UNCHANGED <<algorithm, reference, generate_calc, predict_calc,
                retrieved, results, args, train_calc, workchain, processes,
                calcinfo, structure, simulate_calc>>

\* AenetPotential(data): the constructor calls set_data on the new node
PotentialInit ==
    /\ pc = "potential.init"
    /\ \E data \in PotentialData :
          /\ potential' = IF validate_data_raises(data) # "none"
                          THEN potential
                          ELSE set_data(NewNode, data)
          /\ Goto(validate_data_raises(data), "potential.ready")
    /\ PotentialUnchanged

\* a later set_data call on the node; one that raises leaves the node as it
\* was and the caller goes on
SetData ==
    /\ pc = "potential.ready"
    /\ \E data \in PotentialData :
          /\ potential' = set_data(potential, data)
          /\ err' = validate_data_raises(data)
    /\ UNCHANGED pc
    /\ PotentialUnchanged

\* a later set_file_data call on the node
SetFileData ==
    /\ pc = "potential.ready"
    /\ \E lines \in PotentialLines, files \in PotentialFiles :
          potential' = set_file_data(potential, lines, files)
    /\ err' = "none"
    /\ UNCHANGED pc
    /\ PotentialUnchanged

NextPotential ==
    \/ PotentialInit
    \/ SetData
    \/ SetFileData

SpecPotential == InitPotential /\ [][NextPotential]_vars

(***************************************************************************)
(* AenetLammpsMdCalculation.prepare_for_submission.  structure is the      *)
(* sequence of the kind symbols of inputs.structure.  The names of the     *)
(* files aiida-lammps fixes are written as the attributes that hold them.  *)
(* calcinfo maps the name of a calculation class to the CalcInfo its       *)
(* prepare_for_submission returned.                                        *)
(***************************************************************************)
\* the structures given to a simulation
Structures ==
    {<<"Ni">>, <<"Ni", "P">>, <<"P", "Ni">>, <<"Cu">>, <<"Cu", "Ni", "P">>}

\* the potentials given to a simulation: built by a caller from a data
\* dictionary, or returned by the train parser
SimulatePotentials ==
    {set_data(NewNode, data) :
        data \in {d \in PotentialData : validate_data_raises(d) = "none"}}
        \cup {TrainedPotential([elements |-> e]) : e \in ElementDicts}

\* the check of the kind elements against potential.allowed_element_names
simulate_raises(pot, kinds) ==
    LET names == pot.attributes["allowed_element_names"]
    IN  IF names # None /\ ~(Range(kinds) \subseteq Range(names[1]))
        THEN "ValidationError"
        ELSE "none"

\* the working folder after the cell transform, the main input, the
\* structure and the files of the potential were written
simulate_write(calc, pot, kinds) ==
    LET files == get_external_files(pot)
    IN  [calc EXCEPT !.folder =
            write_all(@,
                <<"cell_transform_filename", "_INPUT_FILE_NAME",
                  "_INPUT_STRUCTURE">> \o files,
                << << <<"struct_transform">> >>,
                   << <<"kind_symbols">> \o kinds >>,
                   << <<"structure_txt">> \o kinds >> >>
                \o [i \in DOMAIN files |->
                       get_object_content(pot, files[i])])]

InitSimulate ==
    /\ algorithm = NoNode
    /\ reference = <<>>
    /\ pc = "simulate.prepare"
    /\ err = "none"
    /\ generate_calc = NewCalc
    /\ predict_calc = NewCalc
    /\ retrieved = <<>>
    /\ results = <<>>
    /\ args = NoArgs
    /\ train_calc = NewCalc
    /\ workchain = NoWorkChain
    /\ processes = <<>>
    /\ potential \in SimulatePotentials
    /\ calcinfo = NoCalcInfo
    /\ structure \in Structures
    /\ simulate_calc = NewCalc

SimulatePrepare ==
    /\ pc = "simulate.prepare"
    /\ simulate_calc' =
          IF simulate_raises(potential, structure) # "none"
          THEN simulate_calc
          ELSE simulate_write(simulate_calc, potential, structure)
    /\ calcinfo' =
          IF simulate_raises(potential, structure) # "none" THEN calcinfo
          ELSE set_attribute(calcinfo, "AenetLammpsMdCalculation",
                   [retrieve_list |->
                       <<"output_filename", "cell_transform_filename">>])
    /\ Goto(simulate_raises(potential, structure), "finished")
    /\ UNCHANGED <<algorithm, reference, generate_calc, predict_calc,
                   retrieved, results, args, train_calc, workchain,
                   processes, potential, structure>>

NextSimulate == SimulatePrepare

SpecSimulate == InitSimulate /\ [][NextSimulate]_vars

(***************************************************************************)
(* The pipeline of files: generate, train and predict run one after the    *)
(* other with one algorithm.  Every calculation prepares its folder and    *)
(* returns its CalcInfo, its program runs in the folder, the engine        *)
(* retrieves the files of the retrieve list that exist, and the parser     *)
(* opens its files in the retrieved folder.                                *)
(***************************************************************************)
RECURSIVE until_blank(_)
\* the lines of a text up to its first blank line
until_blank(text) ==
    IF text = <<>> \/ text[1] = <<>> THEN <<>>
    ELSE <<text[1]>> \o until_blank(Tail(text))

\* the file names of the NETWORKS section of a control file: the second
\* field of its lines, the lines starting with "!" being comments
networks_names(text) ==
    LET k == index_of(text, <<"NETWORKS">>)
        sec == IF k = 0 THEN <<>>
               ELSE until_blank(SubSeq(text, k + 1, Len(text)))
    IN  {sec[i][2] : i \in {j \in DOMAIN sec : sec[j][1] # "!"}}

\* what the engine retrieves: the files of the retrieve list that exist
retrieve(folder, retrieve_list) ==
    [f \in DOMAIN folder \cap Range(retrieve_list) |-> folder[f]]

\* the files the parser of a calculation opens in the retrieved folder
parser_opens(process_class, alg) ==
    CASE process_class = "AenetGenerateCalculation" -> {"train.dat"}
      [] process_class = "AenetTrainCalculation" ->
            {"train.out"}
                \cup {alg.elements[i].key \o ".nn" : i \in DOMAIN alg.elements}
      [] process_class = "AenetPredictCalculation" -> {"predict.out"}

\* retrieved.open(...) of a file that was not retrieved
open_raises(process_class, alg, folder) ==
    IF parser_opens(process_class, alg) \subseteq DOMAIN folder THEN "none"
    ELSE "FileNotFoundError"

\* the algorithms of the pipeline: the three element dictionaries, BFGS
\* training, the default parameters or the forces switched on
PipelineAlgorithms ==
    {init_attributes(a) :
        a \in [elements : ElementDicts,
               descriptor : {[type |-> "chebyshev",
                              parameters |-> EmptyDict]},
               training : {TrainingStr("bfgs")},
               parameters : {EmptyDict, [predict_forces |-> TRUE]}]}

PipelineReferences == {<<1>>, <<2>>, <<1, 2>>, <<3, 1>>}

\* a train.out of two epochs
TwoEpochsOut ==
    << TrainLine("other", <<>>), TrainLine("header", <<>>),
       TrainLine("row", <<"0", "0.5", "0.6", "0.7", "0.8">>),
       TrainLine("row", <<"1", "0.4", "0.5", "0.3", "0.2">>) >>

InitPipeline ==
    /\ algorithm \in PipelineAlgorithms
    /\ reference \in PipelineReferences
    /\ pc = "generate.prepare"
    /\ err = "none"
    /\ generate_calc = NewCalc
    /\ predict_calc = NewCalc
    /\ retrieved = EmptyFolder
    /\ results = <<>>
    /\ args = NoArgs
    /\ train_calc = NewCalc
    /\ workchain = NoWorkChain
    /\ processes = <<>>
    /\ potential = NoNode
    /\ calcinfo = NoCalcInfo
    /\ structure = NoStructure
    /\ simulate_calc = NewCalc

PipelineUnchanged ==
    UNCHANGED <<algorithm, reference, args, workchain, processes, structure,
                simulate_calc>>

\* AenetGenerateCalculation.prepare_for_submission
PipelineGeneratePrepare ==
    /\ pc = "generate.prepare"
    /\ LET raises == IF write_xsfs_raises(reference) # "none"
                     THEN write_xsfs_raises(reference)
                     ELSE write_setups_raises(algorithm)
           with_xsfs == write_xsfs(generate_calc, reference)
           with_setups == write_setups(with_xsfs, algorithm)
       IN  /\ generate_calc' =
                 IF write_xsfs_raises(reference) # "none" THEN with_xsfs
                 ELSE IF raises # "none" THEN with_setups
                 ELSE [with_setups EXCEPT !.folder =
                         write_all(@, <<"generate.in">>,
                             <<generate_write_input(with_setups, algorithm,
                                                    reference)>>)]
           /\ calcinfo' =
                 IF raises # "none" THEN calcinfo
                 ELSE set_attribute(calcinfo, "AenetGenerateCalculation",
                          [retrieve_list |-> <<"train.dat">>])
           /\ Goto(raises, "generate.x")
    /\ UNCHANGED <<predict_calc, train_calc, retrieved, results, potential>>
    /\ PipelineUnchanged

\* generate.x writes the training set and its standard output; the engine
\* retrieves
PipelineGenerateX ==
    /\ pc = "generate.x"
    /\ generate_calc' =
          [generate_calc EXCEPT !.folder =
              write_all(@, <<"train.dat", "generate.out">>,
                        << << <<"training set">> \o
                                files_names(@["generate.in"]) >>,
                           << <<"generate.x">> >> >>)]
    /\ retrieved' =
          retrieve(generate_calc'.folder,
                   calcinfo["AenetGenerateCalculation"].retrieve_list)
    /\ Goto("none", "generate.parse")
    /\ UNCHANGED <<predict_calc, train_calc, results, potential, calcinfo>>
    /\ PipelineUnchanged

\* AenetGenerateParser.parse: the output train_file
PipelineGenerateParse ==
    /\ pc = "generate.parse"
    /\ LET raises == open_raises("AenetGenerateCalculation", algorithm,
                                 retrieved)
       IN  /\ results' = IF raises # "none" THEN results
                         ELSE [train_file |-> retrieved["train.dat"]]
           /\ Goto(raises, "train.prepare")
    /\ UNCHANGED <<generate_calc, predict_calc, train_calc, retrieved,
                   potential, calcinfo>>
    /\ PipelineUnchanged

\* AenetTrainCalculation.prepare_for_submission
PipelineTrainPrepare ==
    /\ pc = "train.prepare"
    /\ train_calc' =
          [train_calc EXCEPT !.folder =
              write_all(@, <<"train.in">>, <<train_write_input(algorithm)>>)]
    /\ calcinfo' =
          set_attribute(calcinfo, "AenetTrainCalculation",
              [retrieve_list |->
                   <<"train.out">> \o ann_potential_files(algorithm),
               local_copy_list |-> <<"train.dat">>])
    /\ Goto("none", "train.x")
    /\ UNCHANGED <<generate_calc, predict_calc, retrieved, results,
                   potential>>
    /\ PipelineUnchanged

\* the engine copies the training set, train.x saves the networks train.in
\* names (in one of two versions each), its restart file and its standard
\* output; the engine retrieves
PipelineTrainX ==
    /\ pc = "train.x"
    /\ \E saved \in [networks_names(train_calc.folder["train.in"])
                        -> {Binary(1), Binary(2)}] :
          train_calc' =
              [train_calc EXCEPT !.folder =
                  [f \in DOMAIN @ \cup DOMAIN saved
                         \cup {"train.dat", "train.out", "train.restart"}
                      |-> IF f \in DOMAIN saved THEN saved[f]
                          ELSE IF f = "train.dat" THEN results.train_file
                          ELSE IF f = "train.out" THEN TwoEpochsOut
                          ELSE IF f = "train.restart"
                          THEN << <<"restart">> >>
                          ELSE @[f]]]
    /\ retrieved' =
          retrieve(train_calc'.folder,
                   calcinfo["AenetTrainCalculation"].retrieve_list)
    /\ Goto("none", "train.parse.potential")
    /\ UNCHANGED <<generate_calc, predict_calc, results, potential, calcinfo>>
    /\ PipelineUnchanged

\* AenetTrainParser.parse: parse_output, parse_potential_data and the output
\* potential
PipelineTrainParse ==
    /\ pc = "train.parse.potential"
    /\ LET missing == open_raises("AenetTrainCalculation", algorithm,
                                  retrieved)
           output == train_parse_output(retrieved["train.out"],
                                        algorithm.epochs)
           raises == IF "train.out" \notin DOMAIN retrieved THEN missing
                     ELSE IF output.raises # "none" THEN output.raises
                     ELSE missing
       IN  /\ results' = IF raises # "none" THEN results ELSE output.results
           /\ potential' =
                 IF raises # "none" THEN potential
                 ELSE parse_potential_data(algorithm, retrieved,
                                           output.results)
           /\ Goto(raises, "predict.prepare")
    /\ UNCHANGED <<generate_calc, predict_calc, train_calc, retrieved,
                   calcinfo>>
    /\ PipelineUnchanged

\* AenetPredictCalculation.prepare_for_submission
PipelinePredictPrepare ==
    /\ pc = "predict.prepare"
    /\ LET raises == IF write_xsfs_raises(reference) # "none"
                     THEN write_xsfs_raises(reference)
                     ELSE predict_write_input_raises(algorithm)
           with_xsfs == write_xsfs(predict_calc, reference)
           with_potentials == write_potentials(with_xsfs, potential)
       IN  /\ predict_calc' =
                 IF write_xsfs_raises(reference) # "none" THEN with_xsfs
                 ELSE IF raises # "none" THEN with_potentials
                 ELSE [with_potentials EXCEPT !.folder =
                         write_all(@, <<"predict.in">>,
                             <<predict_write_input(with_potentials, algorithm,
                                                   reference)>>)]
           /\ calcinfo' =
                 IF raises # "none" THEN calcinfo
                 ELSE set_attribute(calcinfo, "AenetPredictCalculation",
                          [retrieve_list |-> <<"predict.out">>])
           /\ Goto(raises, "predict.run")
    /\ UNCHANGED <<generate_calc, train_calc, retrieved, results, potential>>
    /\ PipelineUnchanged

\* predict.x writes its standard output; the engine retrieves
PipelinePredictX ==
    /\ pc = "predict.run"
    /\ predict_calc' =
          [predict_calc EXCEPT !.folder =
              write_all(@, <<"predict.out">>,
                  <<predict_out(@, <<0, "">>,
                                Len(files_names(@["predict.in"])))>>)]
    /\ retrieved' =
          retrieve(predict_calc'.folder,
                   calcinfo["AenetPredictCalculation"].retrieve_list)
    /\ Goto("none", "predict.parse.retrieved")
    /\ UNCHANGED <<generate_calc, train_calc, results, potential, calcinfo>>
    /\ PipelineUnchanged

\* AenetPredictParser.parse
PipelinePredictParse ==
    /\ pc = "predict.parse.retrieved"
    /\ LET missing == open_raises("AenetPredictCalculation", algorithm,
                                  retrieved)
           output == predict_parse_output(reference,
                                          retrieved["predict.out"])
           raises == IF missing # "none" THEN missing ELSE output.raises
       IN  /\ results' = IF raises # "none" THEN results ELSE output.pk_dict
           /\ Goto(raises, "finished")
    /\ UNCHANGED <<generate_calc, predict_calc, train_calc, retrieved,
                   potential, calcinfo>>
    /\ PipelineUnchanged

NextPipeline ==
    \/ PipelineGeneratePrepare
    \/ PipelineGenerateX
    \/ PipelineGenerateParse
    \/ PipelineTrainPrepare
    \/ PipelineTrainX
    \/ PipelineTrainParse
    \/ PipelinePredictPrepare
    \/ PipelinePredictX
    \/ PipelinePredictParse

SpecPipeline == InitPipeline /\ [][NextPipeline]_vars

(***************************************************************************)
(* CompareSimulationsWorkChain.  The outline is setup, simulate, log.  The *)
(* work chain record also holds its inputs and the messages it reported.   *)
(* self.to_context(key=append_(process)) awaits the process and appends it *)
(* to the list the context holds under key; a step of the outline runs     *)
(* only when every awaited process has terminated.                         *)
(***************************************************************************)
\* d[key] = value on a dictionary
setitem(d, key, value) ==
    [k \in DOMAIN d \cup {key} |-> IF k = key THEN value ELSE d[k]]

\* the process appended to the context list without being awaited
to_context_no_wait(wc, key, pid) ==
    [wc EXCEPT !.ctx =
        setitem(@, key,
                IF key \in DOMAIN @ THEN Append(@[key], pid) ELSE <<pid>>)]

\* self.to_context(key=append_(process))
to_context(wc, key, pid) ==
    [wc EXCEPT !.ctx =
                   setitem(@, key,
                           IF key \in DOMAIN @ THEN Append(@[key], pid)
                           ELSE <<pid>>),
               !.awaitables = @ \cup {pid}]

\* the aiida-lammps potentials given as empirical_potential
EmpiricalPotentials ==
    {[potential_type |-> "tersoff"], [potential_type |-> "eam"]}

\* the inputs of the work chain
CompareInputs ==
    [code : {"lammps"},
     structure : Structures,
     ann_potential : {TrainedPotential([elements |-> e]) :
                         e \in ElementDicts},
     empirical_potential : EmpiricalPotentials,
     simulation : {[parameters |-> "md"]}]

InitCompare ==
    /\ algorithm = NoNode
    /\ reference = <<>>
    /\ pc = "setup"
    /\ err = "none"
    /\ generate_calc = NewCalc
    /\ predict_calc = NewCalc
    /\ retrieved = <<>>
    /\ results = <<>>
    /\ args = NoArgs
    /\ train_calc = NewCalc
    /\ \E inputs \in CompareInputs :
          workchain = [ctx |-> EmptyDict, awaitables |-> {},
                       outputs |-> NoOutputs, inputs |-> inputs,
                       reports |-> <<>>]
    /\ processes = <<>>
    /\ potential = NoNode
    /\ calcinfo = NoCalcInfo
    /\ structure = NoStructure
    /\ simulate_calc = NewCalc

\* setup: the exposed inputs of the namespace, the code and the structure go
\* to the context
CompareSetup ==
    /\ pc = "setup"
    /\ workchain' =
          [workchain EXCEPT !.ctx =
              setitem(@, "simulation_inputs",
                  setitem(setitem(workchain.inputs.simulation,
                                  "code", workchain.inputs.code),
                          "structure", workchain.inputs.structure))]
    /\ Goto("none", "simulate")
    /\ UNCHANGED processes
    /\ WorkChainUnchanged

\* simulate: the loop over the two pairs (potential, calculation class)
CompareSimulate ==
    /\ pc = "simulate"
    /\ Resolved
    /\ LET n == Len(processes)
           empirical == setitem(workchain.ctx["simulation_inputs"],
                                "potential",
                                workchain.inputs.empirical_potential)
           ann == setitem(empirical, "potential",
                          workchain.inputs.ann_potential)
           first == submitted(processes, "MdMultiCalculation", empirical)
           wc1 == to_context(
                      [workchain EXCEPT !.ctx =
                          setitem(@, "simulation_inputs", empirical)],
                      "simulations", n + 1)
       IN  /\ processes' =
                 submitted(first, "AenetLammpsMdCalculation", ann)
           /\ workchain' =
                 to_context(
                     [wc1 EXCEPT !.ctx =
                         setitem(@, "simulation_inputs", ann)],
                     "simulations", n + 2)
    /\ Goto("none", "log")
    /\ WorkChainUnchanged

\* log: self.report
CompareLog ==
    /\ pc = "log"
    /\ Resolved
    /\ workchain' =
          [workchain EXCEPT !.reports =
              Append(@, "The WorkChain has finished.")]
    /\ Goto("none", "finished")
    /\ UNCHANGED processes
    /\ WorkChainUnchanged

NextCompare ==
    \/ CompareSetup
    \/ CompareSimulate
    \/ CompareLog
    \/ CalcTerminates

SpecCompare == InitCompare /\ [][NextCompare]_vars

(***************************************************************************)
(* Properties.                                                             *)
(***************************************************************************)
\* write_input of the generate calculation has returned
GenerateBuilt ==
    pc \notin {"generate.write_xsfs", "generate.write_setups",
               "generate.write_input"}
        /\ err \notin {"IndexError", "AttributeError"}

\* the generate calculation has run its write_xsfs
GenerateExported == pc # "generate.write_xsfs"

\* the predict calculation has run its write_xsfs
PredictExported ==
    \/ pc \in {"predict.write_potentials", "predict.write_input",
               "predict.x", "predict.parse", "finished"}
    \/ pc = "excepted" /\ err = "TypeError"

\* every reference structure has a force vector for each of its atoms
AllForcesPresent ==
    \A i \in DOMAIN reference :
        Len(load_node(reference[i]).forces)
            >= Len(load_node(reference[i]).sites)

\* block i of predict.out holds its atom-count line and its energy line
block_complete(out, i) ==
    /\ \E k \in DOMAIN out : out[k].kind = "natoms" /\ out[k].blk = i
    /\ \E k \in DOMAIN out : out[k].kind = "energy" /\ out[k].blk = i

block_value(out, i, kind) ==
    out[CHOOSE k \in DOMAIN out : out[k].kind = kind /\ out[k].blk = i].val

AllBlocksComplete ==
    \A i \in DOMAIN reference : block_complete(retrieved, i)

\* the FILES section of a control file lists, in the order of the reference
\* list, the files that hold the structures of the list
FilesInOrder(calc, input) ==
    input \in DOMAIN calc.folder =>
        LET names == files_names(calc.folder[input])
        IN  /\ Len(names) = Len(reference)
            /\ \A i \in DOMAIN names :
                  /\ names[i] \in DOMAIN calc.folder
                  /\ calc.folder[names[i]] = xsf(load_node(reference[i]))

\* the i-th record is keyed by the i-th identifier and carries block i
RecordsInOrder ==
    /\ Len(results) = Len(reference)
    /\ \A i \in DOMAIN reference :
          /\ results[i].key = str(reference[i])
          /\ results[i].n = block_value(retrieved, i, "natoms")
          /\ results[i].E = block_value(retrieved, i, "energy")

LastOf(i) ==
    CHOOSE j \in DOMAIN reference :
        /\ reference[j] = reference[i]
        /\ \A k \in DOMAIN reference : reference[k] = reference[i] => k <= j

FirstOccurrences ==
    {i \in DOMAIN reference :
        \A j \in 1 .. (i - 1) : reference[j] # reference[i]}

KeyPosition(key) == CHOOSE k \in DOMAIN results : results[k].key = key

DigitCount(n) == CHOOSE w \in 1 .. 4 : 10 ^ (w - 1) <= n /\ n < 10 ^ w

RECURSIVE Padded(_, _)
\* the last w decimal digits of i, leading zeros included
Padded(i, w) ==
    IF w = 0 THEN "" ELSE Padded(i \div 10, w - 1) \o Digit(i % 10)

NamesAsIndexed(calc) ==
    LET names == calc.xsf_file_list
    IN  /\ \A i \in DOMAIN names :
              /\ names[i] =
                    Padded(i, DigitCount(Len(reference))) \o ".xsf"
              /\ names[i] \in DOMAIN calc.folder
              /\ calc.folder[names[i]] = xsf(load_node(reference[i]))
        /\ \A i, j \in DOMAIN names :
              /\ i # j => names[i] # names[j]
              /\ Len(names[i]) = Len(names[j])

\* C2: the structure of the i-th entry of N is written under the decimal
\* index i, zero-padded to the number of digits of N, followed by .xsf; the
\* names are pairwise distinct, of one length, and there are N of them.
C2_FileNames ==
    /\ NamesAsIndexed(generate_calc)
    /\ NamesAsIndexed(predict_calc)
    /\ (GenerateExported /\ AllForcesPresent) =>
          Len(generate_calc.xsf_file_list) = Len(reference)
    /\ PredictExported => Len(predict_calc.xsf_file_list) = Len(reference)

\* twelve structures were with_xsfs as 01.xsf ... 12.xsf
C2_Witness ==
    /\ Len(reference) = 12
    /\ PredictExported
    /\ generate_calc.xsf_file_list[1] = "01.xsf"
    /\ generate_calc.xsf_file_list[9] = "09.xsf"
    /\ generate_calc.xsf_file_list[12] = "12.xsf"
    /\ Len(predict_calc.xsf_file_list) = 12
    /\ "12.xsf" \in DOMAIN predict_calc.folder

\* C3: the prediction parser fails with ResultCountMismatchError when the
\* number of energy records differs from the number of identifiers; it never
\* returns a result then.
C3_CountMismatchFails ==
    /\ pc = "finished" =>
          Len(predict_parse_output(reference, retrieved).energies)
              = Len(reference)
    /\ (/\ pc = "excepted" /\ retrieved # <<>>
        /\ Len(predict_parse_output(reference, retrieved).energies)
              # Len(reference))
          => err = "ResultCountMismatchError"

\* C4: when no line of train.out is the header of the metrics table (the
\* empty file included) the training-curve parser fails, the failure being
\* MalformedOutputError whenever the file has a line to look at; it returns
\* no training curve then.
C4_MissingHeaderFails ==
    (/\ pc # "train.parse"
     /\ \A k \in DOMAIN retrieved : retrieved[k].kind # "header")
        => /\ pc = "excepted"
           /\ Len(retrieved) > 0 => err = "MalformedOutputError"

\* C5: the generate-phase builder fails with EmptyReferenceSetError on an
\* empty reference set; no generate.in with a FILES count of 0 is produced.
C5_EmptyReferenceFails ==
    Len(reference) = 0 =>
        /\ "generate.in" \notin DOMAIN generate_calc.folder
        /\ GenerateBuilt => err = "EmptyReferenceSetError"

\* a reference structure names an element that is no key of elements
UnknownElement ==
    \E i \in DOMAIN reference :
        \E j \in DOMAIN load_node(reference[i]).sites :
            load_node(reference[i]).sites[j].kind_name
                \notin Range(keys(algorithm.elements))

\* C6: a control-file builder fails with UnknownElementError when a reference
\* structure names an element that is no key of the elements mapping; no
\* control file is produced then.
C6_UnknownElementFails ==
    UnknownElement =>
        /\ "generate.in" \notin DOMAIN generate_calc.folder
        /\ "predict.in" \notin DOMAIN predict_calc.folder
        /\ GenerateBuilt => err = "UnknownElementError"

ForcesMissing == ~AllForcesPresent

FirstMissing ==
    CHOOSE i \in DOMAIN reference :
        /\ Len(load_node(reference[i]).forces)
              < Len(load_node(reference[i]).sites)
        /\ \A j \in 1 .. (i - 1) :
              Len(load_node(reference[j]).forces)
                  >= Len(load_node(reference[j]).sites)

\* no structure file holds a coordinate line without its force fields
NoLineWithoutForces ==
    \A calc \in {generate_calc, predict_calc} :
        \A i \in DOMAIN calc.xsf_file_list :
            LET lines == coordinate_lines(calc.folder[calc.xsf_file_list[i]])
            IN  \A j \in DOMAIN lines : Len(lines[j]) = 7

C8_CoordinateLines ==
    \A calc \in {generate_calc, predict_calc} :
        \A i \in DOMAIN calc.xsf_file_list :
            LET pw == load_node(reference[i])
                text == calc.folder[calc.xsf_file_list[i]]
                k == index_of(text, <<"PRIMCOORD">>)
                N == Len(pw.sites)
            IN  Len(pw.forces) = N =>
                    /\ k > 0
                    /\ text[k + 1][1] = str(N)
                    /\ Len(text) = k + 1 + N
                    /\ \A j \in 1 .. N :
                          text[k + 1 + j] =
                              <<pw.sites[j].kind_name,
                                fixed12(pw.sites[j].position[1]),
                                fixed12(pw.sites[j].position[2]),
                                fixed12(pw.sites[j].position[3]),
                                fixed12(pw.forces[j][1]),
                                fixed12(pw.forces[j][2]),
                                fixed12(pw.forces[j][3])>>

\* the three-atom structure was with_xsfs by both calculations
C8_Witness ==
    /\ reference = <<3, 1>>
    /\ PredictExported
    /\ Len(coordinate_lines(generate_calc.folder["1.xsf"])) = 3
    /\ Len(coordinate_lines(predict_calc.folder["2.xsf"])) = 2
    /\ coordinate_lines(generate_calc.folder["1.xsf"])[2][6]
          = "-35.000000000000"

\* the lines of a setup file that are records of the given function type
records_of(text, G) ==
    {k \in DOMAIN text : text[k] # <<>> /\ text[k][1] = G}

\* write_setups of the generate calculation was reached and has acted
SetupsWritten ==
    AllForcesPresent
        /\ pc \notin {"generate.write_xsfs", "generate.write_setups"}

\* C9: for a Behler descriptor the setup block of every element holds
\* exactly |S| x |R| two-body (G=2) records.
C9_TwoBodyRecords ==
    (algorithm.descriptor.type = "behler" /\ SetupsWritten) =>
        \A e \in DOMAIN algorithm.elements :
            LET stp == algorithm.elements[e].key \o ".stp"
            IN  /\ stp \in DOMAIN generate_calc.folder
                /\ Cardinality(records_of(generate_calc.folder[stp], "G=2"))
                      = Len(algorithm.elements)
                          * Len(algorithm.descriptor.parameters.G2.etas)

\* C10: for a Behler descriptor with n symbols the setup block holds exactly
\* n(n+1)/2 x |zetas| x |lambdas| x |etas| three-body (G=4) records.
C10_ThreeBodyRecords ==
    (algorithm.descriptor.type = "behler" /\ SetupsWritten) =>
        \A e \in DOMAIN algorithm.elements :
            LET stp == algorithm.elements[e].key \o ".stp"
                n == Len(algorithm.elements)
                G4 == algorithm.descriptor.parameters.G4
            IN  /\ stp \in DOMAIN generate_calc.folder
                /\ Cardinality(records_of(generate_calc.folder[stp], "G=4"))
                      = ((n * (n + 1)) \div 2) * Len(G4.zetas)
                          * Len(G4.lambdas) * Len(G4.etas)

\* the value the caller configured for a Chebyshev parameter, under the key
\* chebyshev() reads or under the key of the documented example, and its
\* default when neither is set
configured(parameters, read_key, documented_key, default) ==
    IF read_key \in DOMAIN parameters THEN parameters[read_key]
    ELSE IF documented_key \in DOMAIN parameters
    THEN parameters[documented_key]
    ELSE default

\* C11: for a Chebyshev descriptor each of the four emitted values (radial
\* cutoff, radial count, angular cutoff, angular count) equals the value the
\* caller configured for it, the key names of the documented example
\* (radial_rc, radial_n, angular_rc, angular_n) included, and its default
\* (4.0, 6, 4.0, 2) when it is unset.
C11_ChebyshevValues ==
    (algorithm.descriptor.type = "chebyshev" /\ SetupsWritten) =>
        \A e \in DOMAIN algorithm.elements :
            LET stp == algorithm.elements[e].key \o ".stp"
                parameters == algorithm.descriptor.parameters
            IN  /\ stp \in DOMAIN generate_calc.folder
                /\ LET text == generate_calc.folder[stp]
                       basis == text[Len(text)]
                   IN  /\ text[Len(text) - 1] = <<"BASIS", "type=Chebyshev">>
                       /\ Len(basis) = 12
                       /\ basis[3] = configured(parameters, "radial cutoff",
                                                "radial_rc", "4.0")
                       /\ basis[6] = configured(parameters, "radial n",
                                                "radial_n", "6")
                       /\ basis[9] = configured(parameters, "angular cutoff",
                                                "angular_rc", "4.0")
                       /\ basis[12] = configured(parameters, "angular n",
                                                 "angular_n", "2")

\* the count line of the FILES section of a control file equals the number
\* of names listed after it
FilesCountMatches(text) ==
    /\ Len(files_section(text)) >= 1
    /\ files_section(text)[1] = <<str(Len(files_names(text)))>>

\* C12: building generate.in again on the same calculation from the same
\* algorithm and reference set (structure export, then write_input) yields
\* the text of the earlier builds: the FILES count and the file names do not
\* grow or change, and the FILES count equals the number of names listed.
C12_Idempotent ==
    /\ \A i, j \in DOMAIN results :
          /\ results[i] = results[j]
          /\ FilesCountMatches(results[i])
    /\ pc = "predict.write_xsfs" =>
          /\ FilesCountMatches(generate_calc.folder["generate.in"])
          /\ \A i \in DOMAIN results :
                results[i] = generate_calc.folder["generate.in"]

\* generate.in was built for the third time for two structures
C12_Witness ==
    /\ pc = "predict.write_xsfs"
    /\ Len(results) = 2
    /\ reference = <<1, 2>>
    /\ files_section(results[1]) = << <<"2">>, <<"1.xsf">>, <<"2.xsf">> >>
    /\ files_section(generate_calc.folder["generate.in"])
          = << <<"2">>, <<"1.xsf">>, <<"2.xsf">> >>

\* a line of the metrics table whose epoch and four metrics are numbers
WellFormed(line) ==
    /\ line.kind = "row"
    /\ \A c \in 2 .. 5 : line.fields[c] \notin {"NaN", "***"}

\* the lines of train.out after the header of the metrics table
AfterHeader == SubSeq(retrieved, header_index(retrieved) + 1, Len(retrieved))

HasHeader == \E i \in DOMAIN retrieved : retrieved[i].kind = "header"

Series == {"epochs", "train_mae", "train_rmse", "test_mae", "test_rmse"}

SeriesColumn(name) ==
    CASE name = "epochs" -> 1 [] name = "train_mae" -> 2
      [] name = "train_rmse" -> 3 [] name = "test_mae" -> 4
      [] name = "test_rmse" -> 5

\* C13: for a train.out whose metrics table holds k >= 1 well-formed epoch
\* lines inside the read window (k = 1 included) the training-curve parser
\* returns k epoch records in the order of the lines, none holding the
\* not-a-number marker, and each of the five series has length k.
C13_WellFormedRows ==
    (/\ pc # "train.parse"
     /\ HasHeader
     /\ Len(AfterHeader) >= 1
     /\ Len(AfterHeader) <= algorithm.epochs + 1
     /\ \A k \in DOMAIN AfterHeader : WellFormed(AfterHeader[k]))
        => /\ pc = "finished"
           /\ \A name \in Series :
                 /\ Len(results[name]) = Len(AfterHeader)
                 /\ \A k \in DOMAIN AfterHeader :
                       /\ results[name][k]
                             = AfterHeader[k].fields[SeriesColumn(name)]
                       /\ results[name][k] # "NaN"

\* the lines of train.in between the METHOD keyword and the blank line that
\* ends its section
MethodSection(text) ==
    LET k == index_of(text, <<"METHOD">>)
        rest == SubSeq(text, k + 1, Len(text))
    IN  SubSeq(rest, 1, index_of(rest, <<>>) - 1)

\* train.in was written for the node the constructor built
TrainInWritten ==
    pc = "finished" /\ "train.in" \in DOMAIN train_calc.folder

\* C14: when the training method is LM or GD the METHOD section of train.in
\* names the method and carries each of its hyperparameters (the stored
\* training parameters, defaults included); when it is BFGS the section
\* names the method only.
C14_MethodSection ==
    TrainInWritten =>
        LET section == MethodSection(train_calc.folder["train.in"])
        IN  /\ Len(section) >= 1
            /\ section[1][1] = algorithm.train_method
            /\ algorithm.train_method = "bfgs" =>
                  section = << <<"bfgs">> >>
            /\ algorithm.train_method \in training_methods =>
                  \A name \in DOMAIN algorithm.training_parameters :
                      \E i \in DOMAIN section :
                          \E f \in DOMAIN section[i] :
                              section[i][f] =
                                  name \o "="
                                       \o algorithm.training_parameters[name]

\* the training argument names LM or GD and holds a dictionary of supplied
\* hyperparameters
NamesMethod ==
    /\ args.training.isinstance = "dict"
    /\ "method" \in DOMAIN args.training.dict
    /\ args.training.dict["method"] \in training_methods
    /\ "parameters" \in DOMAIN args.training.dict

\* the training argument is the string 'bfgs'
IsBfgs == args.training.isinstance = "str" /\ args.training.str = "bfgs"

\* the hyperparameters the constructor has to store for the named method:
\* the supplied value, the default of the method where none was supplied
Expected ==
    LET method == args.training.dict["method"]
        given == args.training.dict["parameters"]
        defaults ==
            IF method = "lm"
            THEN [batchsize |-> "5000", learn_rate |-> "0.1",
                  rate_adjust |-> "5.0", optimize_iterations |-> "3",
                  converge_threshold |-> "0.001"]
            ELSE [learn_rate |-> "0.003", momentum_rate |-> "0.05"]
    IN  [k \in DOMAIN defaults |->
            IF k \in DOMAIN given THEN given[k] ELSE defaults[k]]

\* C15: constructing an AenetAlgorithm whose training configuration names LM
\* or GD succeeds for every subset of supplied hyperparameters and stores
\* each hyperparameter of the method, the supplied value or the default; a
\* training value that is neither 'bfgs' nor such a configuration is
\* rejected with an error.
C15_TrainingStored ==
    [][pc = "algorithm.init" =>
          /\ NamesMethod =>
                /\ pc' # "excepted"
                /\ algorithm'.training_parameters = Expected
          /\ (~NamesMethod /\ ~IsBfgs) => pc' = "excepted"]_vars

\* write_input of the predict calculation was called
PredictInputCalled ==
    PredictExported
        /\ pc \notin {"predict.write_potentials", "predict.write_input"}

\* a line of the text starts with the keyword
HasKeyword(text, keyword) ==
    \E i \in DOMAIN text : text[i] # <<>> /\ text[i][1] = keyword

\* C16: for every combination of predict_forces, predict_relax and timing
\* the predict-phase builder returns a predict.in text in which FORCES
\* appears exactly when predict_forces is set, RELAX exactly when
\* predict_relax is set and TIMING exactly when timing is set.
C16_PredictFlags ==
    PredictInputCalled =>
        /\ pc # "excepted"
        /\ "predict.in" \in DOMAIN predict_calc.folder
        /\ LET text == predict_calc.folder["predict.in"]
           IN  /\ HasKeyword(text, "FORCES") <=> algorithm.predict_forces
               /\ HasKeyword(text, "RELAX") <=> algorithm.predict_relax
               /\ HasKeyword(text, "TIMING") <=> algorithm.timing

\* the index of the first 'Energy evaluation' line of predict.out (0: none)
FirstEvaluation ==
    IF \E k \in DOMAIN retrieved : retrieved[k].kind = "eval"
    THEN CHOOSE k \in DOMAIN retrieved :
             /\ retrieved[k].kind = "eval"
             /\ \A j \in 1 .. (k - 1) : retrieved[j].kind # "eval"
    ELSE 0

\* the index of the first 'Atomic Energy Network done.' line after the first
\* 'Energy evaluation' line (one past the last line: none)
FirstDone ==
    LET after == {k \in DOMAIN retrieved :
                     k > FirstEvaluation /\ retrieved[k].kind = "done"}
    IN  IF after = {} THEN Len(retrieved) + 1
        ELSE CHOOSE k \in after : \A j \in after : k <= j

\* the lines between the two sentinels
BetweenSentinels ==
    IF FirstEvaluation = 0 THEN <<>>
    ELSE SubSeq(retrieved, FirstEvaluation, FirstDone - 1)

IsAtomCount(line) == line.kind = "natoms"

IsEnergy(line) == line.kind = "energy"

RecordsOf(text) ==
    LET rows == SelectSeq(text, LAMBDA line : line.kind # "blank")
    IN  \A name \in Series :
            /\ Len(results[name]) = Len(rows)
            /\ \A k \in DOMAIN rows :
                  /\ rows[k].kind = "row"
                  /\ results[name][k] = rows[k].fields[SeriesColumn(name)]

\* C18: the training-curve parser turns into epoch records only lines that
\* follow the header of the metrics table, lie among the first epochs + 2
\* lines after it and precede the convergence announcement when that window
\* holds one: the records are those of the first m lines after the header,
\* for an m of at most epochs + 2 with no announcement among the m lines.
C18_OnlyWindowLines ==
    pc = "finished" =>
        IF ~HasHeader THEN RecordsOf(<<>>)
        ELSE \E m \in 0 .. Min(algorithm.epochs + 2, Len(AfterHeader)) :
                /\ \A k \in 1 .. m : AfterHeader[k].kind # "converged"
                /\ RecordsOf(SubSeq(AfterHeader, 1, m))

\* four epoch lines follow the header and epochs is 1: the fourth lies
\* beyond the window and is no record
C18_Witness ==
    /\ pc = "finished"
    /\ algorithm.epochs = 1
    /\ retrieved = << TrainLine("header", <<>>),
                      TrainLine("row", <<"0", "0.5", "0.6", "0.7", "0.8">>),
                      TrainLine("row", <<"1", "0.4", "NaN", "0.3", "0.2">>),
                      TrainLine("row", <<"0", "0.5", "0.6", "0.7", "0.8">>),
                      TrainLine("row", <<"1", "0.4", "NaN", "0.3", "0.2">>) >>
    /\ results.epochs = <<"0", "1">>

\* the lines the parser retains: those after the header, within the slice
\* it reads and before the convergence announcement
Retained == epoch_lines(retrieved, algorithm.epochs)

\* a metric field that is not a number: the not-a-number token or any other
\* text that is no numeral
NotANumber(field) == field \in {"NaN", "***"}

\* C19: when a retained epoch line of train.out has a metric field that is
\* not a number the training-curve parser does not fail: it returns the
\* record with the not-a-number marker in that field and the other fields
\* and the other records parsed normally.
C19_MarkerNotFailure ==
    (/\ pc # "train.parse"
     /\ HasHeader
     /\ Len(Retained) >= 1
     /\ \A k \in DOMAIN Retained : Retained[k].kind = "row"
     /\ \E k \in DOMAIN Retained :
           \E c \in 2 .. 5 : NotANumber(Retained[k].fields[c]))
        => /\ pc = "finished"
           /\ \A name \in Series :
                 /\ Len(results[name]) = Len(Retained)
                 /\ \A k \in DOMAIN Retained :
                       LET field == Retained[k].fields[SeriesColumn(name)]
                       IN  results[name][k] =
                               IF NotANumber(field) THEN "NaN" ELSE field

\* the calculations of the outline, in its order
Outline ==
    <<"AenetGenerateCalculation", "AenetTrainCalculation",
      "AenetPredictCalculation">>

\* the number of calculations submitted when a step of the outline is next
SubmittedBefore(step) ==
    CASE step \in {"setup", "generate"} -> {0}
      [] step = "train" -> {1}
      [] step = "predict" -> {2}
      [] step \in {"get_potential", "finished"} -> {3}
      [] OTHER -> {1, 2}

\* C20: the work chain runs setup, generate, train, predict, get_potential
\* in that order; the train calculation is submitted only after the generate
\* calculation has finished, with its train_file output; the predict
\* calculation only after the train calculation has finished, with its
\* potential output; the 'potential' output of the work chain is the
\* potential of the train calculation and is emitted only after the predict
\* calculation has come to its end.
C20_StepsInOrder ==
    LET n == Len(processes)
    IN  /\ n \in SubmittedBefore(pc)
        /\ \A i \in 1 .. n : processes[i].process_class = Outline[i]
        /\ n >= 2 =>
              /\ processes[1].state = "finished"
              /\ processes[2].inputs.train_file = Node(1, "train_file")
              /\ processes[1].outputs.train_file = Node(1, "train_file")
        /\ n >= 3 =>
              /\ processes[2].state = "finished"
              /\ processes[3].inputs.potential = Node(2, "potential")
              /\ processes[2].outputs.potential = Node(2, "potential")
        /\ "potential" \in DOMAIN workchain.outputs =>
              /\ pc = "finished"
              /\ n = 3
              /\ processes[3].state # "running"
              /\ workchain.outputs.potential = Node(2, "potential")

\* the three calculations ran one after the other and the work chain
\* returned the potential of the train calculation
C20_Witness ==
    /\ pc = "finished"
    /\ Len(processes) = 3
    /\ \A i \in 1 .. 3 : processes[i].state = "finished"
    /\ "results" \in DOMAIN processes[3].outputs
    /\ workchain.outputs.potential = processes[2].outputs.potential
    /\ workchain.ctx["predict_calc"] = 3

\* the record holds the atom count and the total energy of block i
FromBlock(record, i) ==
    /\ block_complete(retrieved, i)
    /\ record.n = block_value(retrieved, i, "natoms")
    /\ record.E = block_value(retrieved, i, "energy")

\* C23: in every result record of the prediction parser the atom count and
\* the total energy come from one structure block of predict.out, the block
\* of the structure the record is keyed by, also when a block of the output
\* lacks its atom-count line or its total-energy line.
C23_SameBlock ==
    pc = "finished" =>
        \A r \in DOMAIN results :
            \E i \in DOMAIN reference :
                /\ str(reference[i]) = results[r].key
                /\ FromBlock(results[r], i)

\* C24: constructing an AenetAlgorithm leaves the caller-supplied
\* configuration unchanged: after AenetAlgorithm(elements, descriptor,
\* training, parameters) the parameters dictionary, the training parameters
\* dictionary and the descriptor parameters dictionary hold exactly the keys
\* and values they held before the call.
C24_ArgumentsUnchanged ==
    [][pc = "algorithm.init" =>
          /\ args'.parameters = args.parameters
          /\ args'.training = args.training
          /\ args'.descriptor = args.descriptor]_vars

\* the md5 attribute keys of a node other than the one of the pair lines
md5_attributes(node) ==
    {md5_key(NetworkFiles[i]) : i \in DOMAIN NetworkFiles}
        \cap DOMAIN node.attributes

\* C25: after any sequence of set_data / set_file_data calls the node's
\* recorded file data describes exactly the files of the most recent call:
\* the stored objects are potential_lines.txt plus the most recent potential
\* files, external_files is the sorted list of those names, and the per-file
\* md5 attributes exist for exactly those files.
C25_OnlyLatestFiles ==
    pc = "potential.ready" =>
        LET files == DOMAIN potential.objects \ {pot_lines_fname}
        IN  /\ pot_lines_fname \in DOMAIN potential.objects
            /\ get_external_files(potential) = sorted(files, NetworkFiles)
            /\ md5_attributes(potential) = {md5_key(f) : f \in files}

\* the elements a potential provides: the names it declares, and the
\* elements of its network files when it declares none
Provided(pot) ==
    LET names == pot.attributes["allowed_element_names"]
    IN  IF names # None THEN Range(names[1])
        ELSE {NetworkSymbols[i] : i \in
                 {j \in DOMAIN NetworkSymbols :
                     NetworkFiles[j] \in Range(get_external_files(pot))}}

\* C22: prepare_for_submission of the simulation raises ValidationError,
\* before writing any file into the working folder, whenever the structure
\* contains a kind element the potential does not provide, also for a
\* potential produced by the train parser.
C22_IncompatibleRejected ==
    (pc # "simulate.prepare" /\ ~(Range(structure) \subseteq Provided(potential)))
        => /\ err = "ValidationError"
           /\ simulate_calc.folder = EmptyFolder

\* X.nn for the X of the element set of the algorithm
NetworksOf(alg) ==
    {alg.elements[i].key \o ".nn" : i \in DOMAIN alg.elements}

\* prepare_for_submission of the calculation class has returned
Prepared(process_class) == process_class \in DOMAIN calcinfo

\* C26: across the generate, train, predict pipeline run with one algorithm
\* whose element set is E the network files stay consistent: train.in names
\* X.nn for exactly the X in E, the retrieve list of the train calculation
\* contains train.out and every such X.nn, the train parser stores exactly
\* those files in the potential, the predict calculation writes exactly
\* those files into its working folder, predict.in's NETWORKS section names
\* exactly those files, and every file a parser opens is in the retrieve
\* list of its calculation.
C26_NetworkFilesConsistent ==
    LET nn == NetworksOf(algorithm)
    IN  /\ Prepared("AenetTrainCalculation") =>
              /\ networks_names(train_calc.folder["train.in"]) = nn
              /\ {"train.out"} \cup nn \subseteq
                    Range(calcinfo["AenetTrainCalculation"].retrieve_list)
        /\ DOMAIN potential # {} =>
              /\ DOMAIN potential.objects \ {pot_lines_fname} = nn
              /\ Range(get_external_files(potential)) = nn
              /\ \A f \in nn : potential.objects[f] = train_calc.folder[f]
        /\ Prepared("AenetPredictCalculation") =>
              /\ DOMAIN predict_calc.folder \cap Range(NetworkFiles) = nn
              /\ \A f \in nn : predict_calc.folder[f] = potential.objects[f]
              /\ networks_names(predict_calc.folder["predict.in"]) = nn
        /\ \A c \in DOMAIN calcinfo :
              parser_opens(c, algorithm)
                  \subseteq Range(calcinfo[c].retrieve_list)
        /\ err # "FileNotFoundError"
        /\ pc \in {"train.prepare", "train.x"} =>
              "train_file" \in DOMAIN results
        /\ pc \in {"predict.prepare", "predict.run",
                   "predict.parse.retrieved", "finished"} =>
              DOMAIN potential # {}

\* the pipeline ran to its end for three elements: the three networks, saved
\* in different versions, are in the potential and in the folder of the
\* predict calculation, and the prediction was parsed
C26_Witness ==
    /\ pc = "finished"
    /\ err = "none"
    /\ keys(algorithm.elements) = <<"Cu", "Ni", "P">>
    /\ get_external_files(potential) = <<"Cu.nn", "Ni.nn", "P.nn">>
    /\ predict_calc.folder["Ni.nn"] = Binary(1)
    /\ predict_calc.folder["P.nn"] = Binary(2)
    /\ networks_names(predict_calc.folder["predict.in"])
          = {"Cu.nn", "Ni.nn", "P.nn"}
    /\ Len(results) = 2

\* the simulations of the work chain, as submitted
Simulation(pid, process_class, V) ==
    /\ processes[pid].process_class = process_class
    /\ processes[pid].inputs.potential = V
    /\ processes[pid].inputs.structure = workchain.inputs.structure
    /\ processes[pid].inputs.code = workchain.inputs.code

====
